---- MODULE Spec2Model ----
(***************************************************************************)
(* Model of tokio-mc: the MC 3E request encoder and response decoder       *)
(* (src/src/codec/mod.rs), the client call (src/src/client/tcp.rs), the    *)
(* server request loop (src/src/server/tcp.rs) and the in-memory test      *)
(* server (src/examples/mitsubishi-mc-test-server.rs).                     *)
(***************************************************************************)
EXTENDS Integers, Sequences, FiniteSets, TLC

VARIABLES
    request,    \* codec: the request handed to the encoder
    frames,     \* codec: the frames the encoder returned
    replies,    \* codec: the sub-response payloads handed to the decoder
    result,     \* codec: what the decoder returned
    stage,      \* codec: "start", "encoded", "replied", "decoded"
    script,     \* session: the calls the client program makes, in order
    pc,         \* client: "idle", "awaiting" (inside call), "closed"; "errored" and
                \* "awaiting-errored" are idle and awaiting after a decoder error
    results,    \* client: what each finished call returned, in order
    written,    \* client: frames of the current call handed to the socket
    received,   \* client: sub-responses of the current call parsed so far
    rbuf,       \* client: read buffer of the Framed transport (bytes)
    c2s,        \* socket: writes of the client the server has not read yet
    s2c,        \* socket: writes of the server the client has not read yet
    sbuf,       \* server: read buffer of the Framed transport (bytes)
    srv,        \* server: "serving" or "closed"
    mem,        \* server: the device zones of the test server
    role,       \* framer: "client" or "server", the side the framer is on
    items,      \* framer: what the peer writes to the stream, in order
    nsent,      \* framer: how many of the items the peer has written
    wire,       \* framer: bytes written by the peer and not yet read
    fbuf,       \* framer: the read buffer the decoder works on
    emitted,    \* framer: the payloads the decoder has emitted, in order
    fstate,     \* framer: "open", or "failed" after a decode error
    plc_model,  \* address: Context.model, "Mitsubishi" or "Keyence"
    op,         \* address: the function under call
    input,      \* address: the text handed to it, one character per element
    radix,      \* address: the NumberBase argument of convert_to_base
    outcome,    \* address: what the function returned
    astage,     \* address: "input", "processed", "done"
    entry,      \* server: the entry point, "serve" or "serve_until"
    service,    \* server: the service behind on_connected
    listener,   \* server: "accepting", "failed", "aborted"
    conns,      \* server: the accepted connections, in accept order
    sync,       \* sync client: "connecting", "ready", "calling", "failed"
    connect_timeout, \* sync client: connect timeout in ticks, if any
    timeout,    \* sync client: Context.timeout, the operation timeout
    now,        \* sync client: ticks since the current block_on began
    inner,      \* sync client: what the awaited future has produced
    returns,    \* sync client: what the finished calls returned
    zscripts,   \* test server: the requests each connection hands to call
    threads,    \* test server: where each connection is in its call
    locks,      \* test server: the holder of each zone's Mutex, 0 if free
    journal,    \* test server: the finished calls, in order of return
    sentby,     \* PLC session: the call that sent each request frame, in order
    answered,   \* PLC session: the request frames the PLC has answered
    origins,    \* PLC session: the request frame each response on the socket answers
    inbuf,      \* PLC session: the same for the responses in the read buffer
    took,       \* PLC session: the request frame whose response each call consumed
    endcodes,   \* PLC session: the end-code of the response to each answered frame
    wide,       \* wide read: the read request, its quantity as a u32 in two halves
    profile,    \* wide read: the build, "debug" or "release" (overflow checks on or off)
    points      \* wide read: what the encoder made of quantity_or_len

codecvars == <<request, frames, replies, result, stage>>

netvars == <<script, pc, results, written, received, rbuf, c2s, s2c, sbuf,
             srv, mem>>

framervars == <<role, items, nsent, wire, fbuf, emitted, fstate>>

addrvars == <<plc_model, op, input, radix, outcome, astage>>

servevars == <<entry, service, listener, conns>>

syncvars == <<sync, connect_timeout, timeout, now, inner, returns>>

zonevars == <<zscripts, threads, locks, journal>>

plcvars == <<sentby, answered, origins, inbuf, took, endcodes>>

widevars == <<wide, profile, points>>

vars == <<request, frames, replies, result, stage, script, pc, results,
          written, received, rbuf, c2s, s2c, sbuf, srv, mem,
          role, items, nsent, wire, fbuf, emitted, fstate,
          plc_model, op, input, radix, outcome, astage,
          entry, service, listener, conns,
          sync, connect_timeout, timeout, now, inner, returns,
          zscripts, threads, locks, journal,
          sentby, answered, origins, inbuf, took, endcodes,
          wide, profile, points>>

\* no stream framer under observation
FramerIdle ==
    /\ role = "none"
    /\ items = <<>>
    /\ nsent = 0
    /\ wire = <<>>
    /\ fbuf = <<>>
    /\ emitted = <<>>
    /\ fstate = "open"

\* no address function under call
AddrIdle ==
    /\ plc_model = "Mitsubishi"
    /\ op = "none"
    /\ input = <<>>
    /\ radix = "Decimal"
    /\ outcome = [tag |-> "None"]
    /\ astage = "idle"

\* no server under observation
ServeIdle ==
    /\ entry = "none"
    /\ service = "none"
    /\ listener = "idle"
    /\ conns = <<>>

\* no synchronous context under observation
SyncIdle ==
    /\ sync = "idle"
    /\ connect_timeout = [some |-> FALSE, ticks |-> 0]
    /\ timeout = [some |-> FALSE, ticks |-> 0]
    /\ now = 0
    /\ inner = [tag |-> "Pending"]
    /\ returns = <<>>

\* no shared test server under observation
ZoneIdle ==
    /\ zscripts = <<>>
    /\ threads = <<>>
    /\ locks = <<>>
    /\ journal = <<>>

\* no PLC session under observation
PlcIdle ==
    /\ sentby = <<>>
    /\ answered = 0
    /\ origins = <<>>
    /\ inbuf = <<>>
    /\ took = <<>>
    /\ endcodes = <<>>

\* no wide read under observation
WideIdle ==
    /\ wide = <<>>
    /\ profile = "none"
    /\ points = <<>>

(***************************************************************************)
(* Program constants                                                       *)
(***************************************************************************)
LIMIT == 900

ZONE_BYTES == 4000

ZONE_BITS == 4000

(***************************************************************************)
(* Bounds of the model                                                     *)
(***************************************************************************)
\* number of distinct payload patterns drawn for write requests
MaxSeed == 2

\* number of calls a client issues on one connection
MaxCalls == 2

\* longest write-bools payload for which every bit vector is drawn
MaxBits == 5

(***************************************************************************)
(* Arithmetic helpers                                                      *)
(***************************************************************************)
Min(a, b) == IF a <= b THEN a ELSE b

\* (x as f64 / d).ceil() for non-negative x
CeilDiv(x, d) == (x + d - 1) \div d

BoolToU8(b) == IF b THEN 1 ELSE 0

RECURSIVE Shr8(_, _)
\* arithmetic shift right of v by 8*i bits
Shr8(v, i) == IF i = 0 THEN v ELSE Shr8(v \div 256, i - 1)

\* byte i (0 = least significant) of the two's complement form of v
ByteOf(v, i) == Shr8(v, i) % 256

\* value.to_le_bytes() for an integer of w bytes (two's complement)
to_le_bytes(v, w) == [i \in 1..w |-> ByteOf(v, i - 1)]

\* the first n elements of s, or all of s when it is shorter
Take(s, n) == SubSeq(s, 1, Min(n, Len(s)))

Drop(s, n) == SubSeq(s, n + 1, Len(s))

(***************************************************************************)
(* Requests (src/src/frame/mod.rs)                                         *)
(***************************************************************************)
WordReadKinds == {"ReadU16s", "ReadI16s", "ReadU32s", "ReadI32s", "ReadF32s",
                  "ReadF64s", "ReadU64s", "ReadI64s"}

WordWriteKinds == {"WriteU16s", "WriteI16s", "WriteU32s", "WriteI32s", "WriteF32s",
                   "WriteU64s", "WriteI64s", "WriteF64s"}

ReadKinds == WordReadKinds \cup {"ReadBools"}

WriteKinds == WordWriteKinds \cup {"WriteBools"}

\* the byte-layer variants the client context and the server use
\* (Request::ReadU8s, Request::WriteU8s): a word-batch read and a
\* word-batch write whose payload is a byte slice of 2 * words bytes
U8sKinds == {"ReadU8s", "WriteU8s"}

\* wire subfunction of the byte-layer variants: word-batch read 0401/0000,
\* word-batch write 1401/0000
U8sFunctionCode(kind) ==
    IF kind = "ReadU8s" THEN <<1, 4, 0, 0>> ELSE <<1, 20, 0, 0>>

\* total points of a byte-layer request: the word count of a read, the
\* payload length in words of a write
U8sQuantityOrLen(req) ==
    IF req.kind = "ReadU8s" THEN req.quantity ELSE Len(req.data) \div 2

\* byte-layer decoding: a word read returns the joined payload verbatim,
\* a write is an acknowledgement with no payload
U8sDecode(data, req) ==
    IF req.kind = "ReadU8s"
    THEN [tag |-> "Ok", kind |-> "ReadU8s", values |-> data]
    ELSE [tag |-> "Ok", kind |-> "WriteU8s", values |-> <<>>]

\* bytes of one value of the request's element type
ValueBytes(kind) ==
    CASE kind \in {"ReadU16s", "ReadI16s", "WriteU16s", "WriteI16s"} -> 2
      [] kind \in {"ReadU32s", "ReadI32s", "ReadF32s",
                   "WriteU32s", "WriteI32s", "WriteF32s"} -> 4
      [] OTHER -> 8

\* FunctionCode::value
FunctionCodeValue(kind) ==
    CASE kind \in U8sKinds -> U8sFunctionCode(kind)
      [] kind \in ReadKinds -> <<1, 4, 0, 0>>
      [] kind = "WriteBools" -> <<1, 20, 1, 0>>
      [] OTHER -> <<1, 20, 0, 0>>

\* PLC_INSTRUCTIONS: prefix -> device code
PlcCode(prefix) ==
    CASE prefix = "X" -> 156 [] prefix = "Y" -> 157 [] prefix = "F" -> 147
      [] prefix = "M" -> 144 [] prefix = "L" -> 146 [] prefix = "D" -> 168
      [] prefix = "R" -> 175 [] prefix = "B" -> 160 [] prefix = "SM" -> 145
      [] prefix = "SD" -> 169 [] prefix = "ZR" -> 176 [] prefix = "W" -> 180
      [] prefix = "TN" -> 194 [] prefix = "TS" -> 193 [] prefix = "CN" -> 197
      [] prefix = "CS" -> 196

\* RequestHeader::new with the 3e subheader
RequestHeader == <<80, 0, 0, 255, 255, 3, 0, 12, 0, 16, 0>>

\* ResponseHeader::new
ResponseHeader == <<208, 0, 0, 255, 255, 3, 0, 2, 0>>

(***************************************************************************)
(* Encoder: TryFrom<Request> for Vec<Bytes>                                *)
(***************************************************************************)
\* bools_to_bytes with eight bits per byte, LSB first
bools_to_bytes_lsb8(bools) ==
    [i \in 1..CeilDiv(Len(bools), 8) |->
        LET bit(j) == IF 8 * (i - 1) + j <= Len(bools)
                      THEN BoolToU8(bools[8 * (i - 1) + j]) ELSE 0
        IN bit(1) + 2 * bit(2) + 4 * bit(3) + 8 * bit(4)
           + 16 * bit(5) + 32 * bit(6) + 64 * bit(7) + 128 * bit(8)]

\* bools.chunks(2): two bits per byte, first bit in bit 4, second in bit 0
bools_to_bytes(bools) ==
    [i \in 1..CeilDiv(Len(bools), 2) |->
        IF 2 * i <= Len(bools)
        THEN 16 * BoolToU8(bools[2 * i - 1]) + BoolToU8(bools[2 * i])
        ELSE 16 * BoolToU8(bools[2 * i - 1])]

\* the write cursor: the whole payload of a write request as bytes
WritePayload(req) ==
    CASE req.kind = "WriteBools" -> bools_to_bytes(req.data)
      [] req.kind = "WriteU8s" -> req.data
      [] req.kind \in WordWriteKinds ->
            LET w == ValueBytes(req.kind)
            IN [j \in 1..(Len(req.data) * w) |->
                   ByteOf(req.data[((j - 1) \div w) + 1], (j - 1) % w)]
      [] OTHER -> <<>>

\* a point count that asks for one word per bit of a bit read
QuantityOrLenPerBit(req) ==
    CASE req.kind \in U8sKinds -> U8sQuantityOrLen(req)
      [] req.kind \in {"ReadBools", "ReadU16s", "ReadI16s"} -> req.quantity
      [] req.kind \in {"ReadU32s", "ReadI32s", "ReadF32s"} -> req.quantity * 2
      [] req.kind \in {"ReadF64s", "ReadU64s", "ReadI64s"} -> req.quantity * 4
      [] req.kind \in {"WriteBools", "WriteU16s", "WriteI16s"} -> Len(req.data)
      [] req.kind \in {"WriteU32s", "WriteI32s", "WriteF32s"} -> Len(req.data) * 2
      [] OTHER -> Len(req.data) * 4

\* quantity_or_len: the number of device points the request covers
QuantityOrLen(req) ==
    CASE req.kind \in U8sKinds -> U8sQuantityOrLen(req)
      [] req.kind = "ReadBools" -> CeilDiv(req.quantity, 16)
      [] req.kind \in {"ReadU16s", "ReadI16s"} -> req.quantity
      [] req.kind \in {"ReadU32s", "ReadI32s", "ReadF32s"} -> req.quantity * 2
      [] req.kind \in {"ReadF64s", "ReadU64s", "ReadI64s"} -> req.quantity * 4
      [] req.kind = "WriteBools" -> Len(req.data)
      [] req.kind \in {"WriteU16s", "WriteI16s"} -> Len(req.data)
      [] req.kind \in {"WriteU32s", "WriteI32s", "WriteF32s"} -> Len(req.data) * 2
      [] OTHER -> Len(req.data) * 4

\* request_command: 24-bit head device, device code, point count
request_command(address, code, cnt) ==
    <<address % 256, (address \div 256) % 256, (address \div 65536) % 256,
      code, cnt % 256, cnt \div 256>>

\* parse_address_and_get_instruction_code: (head device number, device code)
parse_address_and_get_instruction_code(address) ==
    <<address.number, PlcCode(address.prefix)>>

\* the chunk length without the per-frame limit
ChunkLenUnlimited(current_len) == current_len

\* current_len.min(LIMIT)
ChunkLen(current_len) == Min(current_len, LIMIT)

\* current_address += len
NextAddress(current_address, len) == current_address + len

\* the write loop of one frame: a fresh iterator over the whole cursor,
\* from which (len+1)/2 bytes (bits) or 2*len bytes (words) are taken
FrameWriteBytes(req, len) ==
    CASE req.kind = "WriteBools" -> Take(WritePayload(req), CeilDiv(len, 2))
      [] req.kind \in WordWriteKinds \cup {"WriteU8s"} ->
            Take(WritePayload(req), len * 2)
      [] OTHER -> <<>>

\* one frame whose length field keeps the default of the header
EncodeFrameUnpatched(req, current_address, code, len) ==
    RequestHeader \o FunctionCodeValue(req.kind)
    \o request_command(current_address, code, len)
    \o FrameWriteBytes(req, len)

\* one frame: header, function code, command, write bytes, length patched
EncodeFrame(req, current_address, code, len) ==
    LET data == RequestHeader \o FunctionCodeValue(req.kind)
                \o request_command(current_address, code, len)
                \o FrameWriteBytes(req, len)
        length == Len(data) - Len(RequestHeader) + 2
    IN [data EXCEPT ![Len(RequestHeader) - 3] = length % 256,
                    ![Len(RequestHeader) - 2] = (length \div 256) % 256]

RECURSIVE EncodeLoop(_, _, _, _)
\* while current_len > 0 { ... results.push(frame) }
EncodeLoop(req, current_address, current_len, code) ==
    IF current_len > 0
    THEN LET len == ChunkLen(current_len)
         IN <<EncodeFrame(req, current_address, code, len)>>
            \o EncodeLoop(req, NextAddress(current_address, len),
                          current_len - len, code)
    ELSE <<>>

\* Vec<Bytes>::try_from(request)
Encode(req) ==
    LET parsed == parse_address_and_get_instruction_code(req.address)
    IN EncodeLoop(req, parsed[1], QuantityOrLen(req), parsed[2])

\* fields of an encoded request frame
FrameFunction(f) == SubSeq(f, 12, 15)

FrameAddress(f) == f[16] + 256 * f[17] + 65536 * f[18]

FrameCode(f) == f[19]

FrameCount(f) == f[20] + 256 * f[21]

FrameData(f) == SubSeq(f, 22, Len(f))

\* the largest head device number three bytes hold
U24_MAX == 16777215

\* assert!(address <= 0xFFFFFF) of request_command
AddressAssert(address) == address <= U24_MAX

\* the head device numbers request_command is called with, frame by frame
HeadAddresses(req) ==
    [k \in 1..CeilDiv(QuantityOrLen(req), LIMIT) |->
        parse_address_and_get_instruction_code(req.address)[1] + LIMIT * (k - 1)]

\* Vec<Bytes>::try_from(request) with its way out by panic: the frames, or
\* the abort of the assertion in request_command at the first frame whose
\* head device number fails it
TryEncode(req) ==
    IF \E k \in 1..Len(HeadAddresses(req)) : ~AddressAssert(HeadAddresses(req)[k])
    THEN [tag |-> "Panic", at |-> "request_command",
          frame |-> CHOOSE k \in 1..Len(HeadAddresses(req)) :
                       /\ ~AddressAssert(HeadAddresses(req)[k])
                       /\ \A j \in 1..(k - 1) : AddressAssert(HeadAddresses(req)[j])]
    ELSE [tag |-> "Sent", at |-> "Ok", frame |-> 0]

(***************************************************************************)
(* Decoder: TryFrom<(Vec<Bytes>, Request)> for Response                    *)
(***************************************************************************)
\* map_error_code: 0xC051..=0xC054 => OutOfRange, everything else => None
map_error_code(error_code) ==
    IF error_code >= 49233 /\ error_code <= 49236 THEN "OutOfRange" ELSE "None"

\* LittleEndian::read_u16(&response_bytes[..2])
EndCode(response_bytes) == response_bytes[1] + 256 * response_bytes[2]

\* check_response: "Ok", the mapped protocol error, or a slice-index panic
check_response(response_bytes) ==
    IF Len(response_bytes) < 2 THEN "Panic"
    ELSE IF map_error_code(EndCode(response_bytes)) = "None" THEN "Ok"
    ELSE map_error_code(EndCode(response_bytes))

\* the index of the first sub-response that check_response rejects, or 0
FirstRejected(bytes) ==
    IF \E i \in 1..Len(bytes) : check_response(bytes[i]) # "Ok"
    THEN CHOOSE i \in 1..Len(bytes) :
            /\ check_response(bytes[i]) # "Ok"
            /\ \A j \in 1..(i - 1) : check_response(bytes[j]) = "Ok"
    ELSE 0

RECURSIVE JoinData(_)
\* data.extend_from_slice(&byte[2..]) over all sub-responses, in order
JoinData(bytes) ==
    IF bytes = <<>> THEN <<>>
    ELSE JoinData(SubSeq(bytes, 1, Len(bytes) - 1)) \o Drop(bytes[Len(bytes)], 2)

\* the bit of a byte at position bit_index (0 = least significant)
BitOf(byte, bit_index) == (byte \div (2 ^ bit_index)) % 2 = 1

\* Request::ReadBools arm: bit i is (data[i / 8] >> (i % 8)) & 1;
\* indexing past the end of data panics
ReadBoolsLsb(data, quantity) ==
    IF quantity > 8 * Len(data) THEN [tag |-> "Panic"]
    ELSE [tag |-> "Ok", kind |-> "ReadBools",
          values |-> [i \in 1..quantity |->
                         BitOf(data[((i - 1) \div 8) + 1], (i - 1) % 8)]]

RECURSIVE FromLeUnsigned(_)
\* an unsigned little-endian integer
FromLeUnsigned(bs) ==
    IF bs = <<>> THEN 0 ELSE bs[1] + 256 * FromLeUnsigned(Tail(bs))

\* a two's complement little-endian integer
FromLeSigned(bs) ==
    IF bs[Len(bs)] >= 128
    THEN -(FromLeUnsigned([i \in 1..Len(bs) |-> 255 - bs[i]])) - 1
    ELSE FromLeUnsigned(bs)

SignedKinds == {"ReadI16s", "ReadI32s", "ReadI64s"}

\* (0..quantity).map(read_<type>::<LittleEndian>).collect::<Result<_>>():
\* running out of bytes is an UnexpectedEof transport error
ReadValues(kind, data, quantity) ==
    LET w == ValueBytes(kind)
    IN IF quantity * w > Len(data)
       THEN [tag |-> "Err", error |-> "UnexpectedEof"]
       ELSE [tag |-> "Ok", kind |-> kind,
             values |-> [i \in 1..quantity |->
                 LET bs == SubSeq(data, (i - 1) * w + 1, i * w)
                 IN IF kind \in SignedKinds THEN FromLeSigned(bs)
                    ELSE FromLeUnsigned(bs)]]

\* Response::try_from((bytes, request))
Decode(bytes, req) ==
    LET bad == FirstRejected(bytes)
        data == JoinData(bytes)
    IN IF bad # 0
       THEN IF check_response(bytes[bad]) = "Panic" THEN [tag |-> "Panic"]
            ELSE [tag |-> "Err", error |-> check_response(bytes[bad])]
       ELSE CASE req.kind \in U8sKinds -> U8sDecode(data, req)
              [] req.kind = "ReadBools" -> ReadBoolsLsb(data, req.quantity)
              [] req.kind \in WordReadKinds -> ReadValues(req.kind, data, req.quantity)
              [] OTHER -> [tag |-> "Ok", kind |-> req.kind, values |-> <<>>]

(***************************************************************************)
(* Stream framers (src/src/codec/tcp.rs)                                   *)
(***************************************************************************)
\* the fixed seven bytes every request starts with
request_prefix == <<80, 0, 0, 255, 255, 3, 0>>

\* the fixed seven bytes every response starts with
response_prefix == <<208, 0, 0, 255, 255, 3, 0>>

\* a client decoder that does not wait for the whole frame: it emits what
\* is buffered once the header is there
McClientDecoderEager(buf) ==
    LET header_len == Len(ResponseHeader)
    IN IF Len(buf) < header_len THEN [tag |-> "None"]
       ELSE IF SubSeq(buf, 1, 7) # <<208, 0, 0, 255, 255, 3, 0>>
       THEN [tag |-> "Err"]
       ELSE LET len == buf[header_len - 1] + 256 * buf[header_len]
                total_len == header_len + len
            IN [tag |-> "Some",
                payload |-> SubSeq(buf, header_len + 1, Min(total_len, Len(buf))),
                rest |-> SubSeq(buf, total_len + 1, Len(buf))]

\* McClientDecoder::decode: None (need more data), Err (bad prefix), or
\* the payload after the nine header bytes, with the rest of the buffer
McClientDecoder(buf) ==
    LET header_len == Len(ResponseHeader)
    IN IF Len(buf) < header_len THEN [tag |-> "None"]
       ELSE IF SubSeq(buf, 1, Len(response_prefix)) # response_prefix
       THEN [tag |-> "Err"]
       ELSE LET len == buf[header_len - 1] + 256 * buf[header_len]
                total_len == header_len + len
            IN IF Len(buf) < total_len THEN [tag |-> "None"]
               ELSE [tag |-> "Some",
                     payload |-> SubSeq(buf, header_len + 1, total_len),
                     rest |-> SubSeq(buf, total_len + 1, Len(buf))]

\* a server decoder that does not verify the request prefix
McServerDecoderUnverified(buf) ==
    LET header_len == Len(RequestHeader)
    IN IF Len(buf) < header_len THEN [tag |-> "None"]
       ELSE LET len == buf[header_len - 3] + 256 * buf[header_len - 2]
                total_len == header_len - 4 + len + 2
            IN IF Len(buf) < total_len THEN [tag |-> "None"]
               ELSE [tag |-> "Some",
                     payload |-> SubSeq(buf, header_len - 4 + 1, total_len),
                     rest |-> SubSeq(buf, total_len + 1, Len(buf))]

\* McServerDecoder::decode: the header minus its last four bytes is split
\* off, the payload is the next len + 2 bytes (length field included)
McServerDecoder(buf) ==
    LET header_len == Len(RequestHeader)
    IN IF Len(buf) < header_len THEN [tag |-> "None"]
       ELSE IF SubSeq(buf, 1, Len(request_prefix)) # request_prefix
       THEN [tag |-> "Err"]
       ELSE LET len == buf[header_len - 3] + 256 * buf[header_len - 2]
                total_len == header_len - 4 + len + 2
            IN IF Len(buf) < total_len THEN [tag |-> "None"]
               ELSE [tag |-> "Some",
                     payload |-> SubSeq(buf, header_len - 4 + 1, total_len),
                     rest |-> SubSeq(buf, total_len + 1, Len(buf))]

\* McClientCodec::encode: every frame of the request is appended to the
\* one write buffer
RECURSIVE ClientCodecEncode(_)
ClientCodecEncode(parts) ==
    IF parts = <<>> THEN <<>>
    ELSE parts[1] \o ClientCodecEncode(Tail(parts))

\* Response::len, which the sources do not contain. The quantity of a
\* read-u8s is counted in words of 16 bits and its payload is a byte vector
\* of twice as many bytes: the length of the response is its whole words.
\* ServerCodec::encode doubles it, so whatever it is, the data length
\* written for a read-u8s response is even
ResponseLen(item) ==
    IF item.kind = "ReadU8s" THEN Len(item.values) \div 2 ELSE 0

\* ServerCodec::encode: header with the data length patched, end-code
\* 0x0000, then the bytes of a read (bits packed by bools_to_bytes)
ServerCodecEncode(item) ==
    LET data_length ==
            CASE item.kind = "ReadU8s" -> ResponseLen(item) * 2 + 2
              [] item.kind = "ReadBits" -> ((Len(item.values) + 1) \div 2) + 2
              [] OTHER -> 2
        header_bytes ==
            [ResponseHeader EXCEPT ![Len(ResponseHeader) - 1] = data_length % 256,
                                   ![Len(ResponseHeader)] = (data_length \div 256) % 256]
    IN header_bytes \o <<0, 0>>
       \o (CASE item.kind = "ReadU8s" -> item.values
             [] item.kind = "ReadBits" -> bools_to_bytes(item.values)
             [] OTHER -> <<>>)

(***************************************************************************)
(* Server side: request parsing and the in-memory test server              *)
(***************************************************************************)
\* find_prefix_and_base_by_code: device code -> prefix
PrefixOfCode(code) ==
    CASE code = 156 -> "X" [] code = 157 -> "Y" [] code = 147 -> "F"
      [] code = 144 -> "M" [] code = 146 -> "L" [] code = 168 -> "D"
      [] code = 175 -> "R" [] code = 160 -> "B" [] code = 145 -> "SM"
      [] code = 169 -> "SD" [] code = 176 -> "ZR" [] code = 180 -> "W"
      [] code = 194 -> "TN" [] code = 193 -> "TS" [] code = 197 -> "CN"
      [] code = 196 -> "CS" [] OTHER -> "?"

\* the inverse of the two-bits-per-byte packing: count bits from the bytes
UnpackBits(bytes, count) ==
    [i \in 1..count |->
        IF ((i + 1) \div 2) <= Len(bytes)
        THEN BitOf(bytes[(i + 1) \div 2], IF i % 2 = 1 THEN 4 ELSE 0)
        ELSE FALSE]

\* ServerDecoder::decode on a payload of McServerDecoder (length, timer,
\* command, subcommand, head device, device code, point count, data):
\* 0401/0000 word read, 1401/0000 word write, 0401/0001 bit read,
\* 1401/0001 bit write
ServerDecode(payload) ==
    IF Len(payload) < 14 THEN [kind |-> "Err"]
    ELSE LET fc == SubSeq(payload, 5, 8)
             address == [prefix |-> PrefixOfCode(payload[12]),
                         number |-> payload[9] + 256 * payload[10]
                                    + 65536 * payload[11]]
             count == payload[13] + 256 * payload[14]
             data == SubSeq(payload, 15, Len(payload))
         IN CASE fc = <<1, 4, 0, 0>> ->
                   [kind |-> "ReadU8s", address |-> address, quantity |-> count]
              [] fc = <<1, 20, 0, 0>> ->
                   [kind |-> "WriteU8s", address |-> address, data |-> data]
              [] fc = <<1, 4, 1, 0>> ->
                   [kind |-> "ReadBits", address |-> address, quantity |-> count]
              [] fc = <<1, 20, 1, 0>> ->
                   [kind |-> "WriteBits", address |-> address,
                    data |-> UnpackBits(data, count)]
              [] OTHER -> [kind |-> "Err"]

\* the zones of the test server
BitZones == {"X", "Y", "M", "L"}

\* MitsubishiMcTestServer::new: every zone zeroed
NewZones ==
    [D |-> [i \in 1..ZONE_BYTES |-> 0],
     X |-> [i \in 1..ZONE_BITS |-> FALSE],
     Y |-> [i \in 1..ZONE_BITS |-> FALSE],
     M |-> [i \in 1..ZONE_BITS |-> FALSE],
     L |-> [i \in 1..ZONE_BITS |-> FALSE]]

\* parse_address: the zone is the first character of the address
ZoneOf(address) ==
    IF address.prefix \in {"D"} \cup BitZones THEN address.prefix
    ELSE "Unknown"

\* eight consecutive bits of a bit zone from bit address a, LSB first;
\* bits beyond the zone read as 0
PackZoneByte(zone, a) ==
    LET bit(b) == IF a + b < Len(zone) /\ zone[a + b + 1] THEN 1 ELSE 0
    IN bit(0) + 2 * bit(1) + 4 * bit(2) + 8 * bit(3)
       + 16 * bit(4) + 32 * bit(5) + 64 * bit(6) + 128 * bit(7)

\* Request::ReadU8s arm of call: the bytes of word_count words
ServeReadU8s(zones, address, word_count) ==
    LET z == ZoneOf(address)
        start_addr == address.number
        bytes_to_read == word_count * 2
    IN CASE z = "D" ->
              [j \in 1..bytes_to_read |->
                  IF start_addr * 2 + j - 1 < Len(zones.D)
                  THEN zones.D[start_addr * 2 + j] ELSE 0]
         [] z \in BitZones ->
              [j \in 1..bytes_to_read |->
                  PackZoneByte(zones[z], start_addr + 8 * (j - 1))]
         [] OTHER -> [j \in 1..bytes_to_read |-> 0]

\* a word write that unpacks the bits of each byte from the top
ServeWriteU8sMsbFirst(zones, address, values) ==
    LET z == ZoneOf(address)
        start_addr == address.number
    IN CASE z = "D" ->
              [zones EXCEPT !.D =
                  [i \in 1..Len(zones.D) |->
                      IF i - 1 >= start_addr * 2
                           /\ i - 1 < start_addr * 2 + Len(values)
                      THEN values[i - start_addr * 2] ELSE zones.D[i]]]
         [] z \in BitZones ->
              [zones EXCEPT ![z] =
                  [i \in 1..Len(zones[z]) |->
                      LET k == i - 1 - start_addr
                      IN IF k >= 0 /\ k < 16 * (Len(values) \div 2)
                         THEN BitOf(values[(k \div 8) + 1], 7 - (k % 8))
                         ELSE zones[z][i]]]
         [] OTHER -> zones

\* Request::WriteU8s arm of call: the zones after the write
ServeWriteU8s(zones, address, values) ==
    LET z == ZoneOf(address)
        start_addr == address.number
    IN CASE z = "D" ->
              [zones EXCEPT !.D =
                  [i \in 1..Len(zones.D) |->
                      IF i - 1 >= start_addr * 2
                           /\ i - 1 < start_addr * 2 + Len(values)
                      THEN values[i - start_addr * 2] ELSE zones.D[i]]]
         [] z \in BitZones ->
              [zones EXCEPT ![z] =
                  [i \in 1..Len(zones[z]) |->
                      LET k == i - 1 - start_addr
                      IN IF k >= 0 /\ k < 16 * (Len(values) \div 2)
                         THEN BitOf(values[(k \div 8) + 1], k % 8)
                         ELSE zones[z][i]]]
         [] OTHER -> zones

\* Request::ReadBits arm of call: bit i of the D zone is bit (i % 16) % 8
\* of byte 2 * start + (i / 16) * 2 + (i % 16) / 8; a bit zone is read
\* directly; bits beyond the zone read as false
ServeReadBits(zones, address, bit_count) ==
    LET z == ZoneOf(address)
        start_addr == address.number
    IN CASE z = "D" ->
              [j \in 1..bit_count |->
                  LET i == j - 1
                      byte_offset == start_addr * 2 + (i \div 16) * 2
                                     + ((i % 16) \div 8)
                  IN IF byte_offset < Len(zones.D)
                     THEN BitOf(zones.D[byte_offset + 1], (i % 16) % 8)
                     ELSE FALSE]
         [] z \in BitZones ->
              [j \in 1..bit_count |->
                  IF start_addr + j - 1 < Len(zones[z])
                  THEN zones[z][start_addr + j] ELSE FALSE]
         [] OTHER -> [j \in 1..bit_count |-> FALSE]

\* Request::WriteBits arm of call: the zones after the write
ServeWriteBits(zones, address, bits) ==
    LET z == ZoneOf(address)
        start_addr == address.number
    IN CASE z = "D" ->
              [zones EXCEPT !.D =
                  [o \in 1..Len(zones.D) |->
                      LET first == 8 * (o - 1 - start_addr * 2)
                          bit(b) ==
                              IF first + b >= 0 /\ first + b < Len(bits)
                              THEN BoolToU8(bits[first + b + 1])
                              ELSE BoolToU8(BitOf(zones.D[o], b))
                      IN bit(0) + 2 * bit(1) + 4 * bit(2) + 8 * bit(3)
                         + 16 * bit(4) + 32 * bit(5) + 64 * bit(6)
                         + 128 * bit(7)]]
         [] z \in BitZones ->
              [zones EXCEPT ![z] =
                  [i \in 1..Len(zones[z]) |->
                      IF i - 1 >= start_addr /\ i - 1 < start_addr + Len(bits)
                      THEN bits[i - start_addr] ELSE zones[z][i]]]
         [] OTHER -> zones

\* MitsubishiMcTestServer::call: the response to a request
ServiceResponse(zones, req) ==
    CASE req.kind = "ReadU8s" ->
            [kind |-> "ReadU8s",
             values |-> ServeReadU8s(zones, req.address, req.quantity)]
      [] req.kind = "WriteU8s" -> [kind |-> "WriteU8s", values |-> <<>>]
      [] req.kind = "ReadBits" ->
            [kind |-> "ReadBits",
             values |-> ServeReadBits(zones, req.address, req.quantity)]
      [] OTHER -> [kind |-> "WriteBits", values |-> <<>>]

\* MitsubishiMcTestServer::call: the zones after serving a request
ServiceZones(zones, req) ==
    CASE req.kind = "WriteU8s" -> ServeWriteU8s(zones, req.address, req.data)
      [] req.kind = "WriteBits" -> ServeWriteBits(zones, req.address, req.data)
      [] OTHER -> zones

(***************************************************************************)
(* Inputs                                                                  *)
(***************************************************************************)
Addresses == {[prefix |-> "D", number |-> 0], [prefix |-> "X", number |-> 16]}

\* words per value of the request's element type
WordsPerValue(kind) == ValueBytes(kind) \div 2

\* element counts around the per-frame limit
Sizes(kind) ==
    LET full == LIMIT \div WordsPerValue(kind)
    IN {0, 1, 2, full, full + 1, 2 * full + 1}

BoolReadSizes == {0, 1, 10, 16, 17, 16 * LIMIT, 16 * LIMIT + 1}

BoolWriteSizes == {LIMIT - 1, LIMIT, LIMIT + 1, 2 * LIMIT + 1}

\* the i-th value of a write payload of pattern seed
PatternValue(kind, seed, i) ==
    LET v == seed * 4099 + i * 37
    IN CASE kind \in {"WriteU16s", "ReadU16s"} -> v % 65536
         [] kind \in {"WriteI16s", "ReadI16s"} -> (v % 65536) - 32768
         [] kind \in SignedKinds \cup {"WriteI32s", "WriteI64s"} ->
                IF i % 2 = 0 THEN -(v * 1009) ELSE v * 1009
         [] OTHER -> v * 1009

PatternBit(seed, i) == ((i * i + seed) % 7) < 3

RECURSIVE BitVectors(_)
\* all bit vectors of length n
BitVectors(n) ==
    IF n = 0 THEN {<<>>}
    ELSE {Append(b, x) : b \in BitVectors(n - 1), x \in BOOLEAN}

\* a read of 2000 words from D0, more than two frames' worth
LongRead ==
    [kind |-> "ReadU16s", address |-> [prefix |-> "D", number |-> 0],
     quantity |-> 2000]

Requests ==
    {LongRead} \cup
    UNION {{[kind |-> k, address |-> a, quantity |-> q] :
                a \in Addresses, q \in Sizes(k)} : k \in WordReadKinds}
    \cup {[kind |-> "ReadBools", address |-> a, quantity |-> q] :
        a \in Addresses, q \in BoolReadSizes}
    \cup UNION {{[kind |-> k, address |-> a,
                  data |-> [i \in 1..n |-> PatternValue(k, sd, i)]] :
                    a \in Addresses, n \in Sizes(k), sd \in 1..MaxSeed} :
                 k \in WordWriteKinds}
    \cup {[kind |-> "WriteBools", address |-> a,
           data |-> [i \in 1..n |-> PatternBit(sd, i)]] :
              a \in Addresses, n \in BoolWriteSizes, sd \in 1..MaxSeed}
    \cup UNION {{[kind |-> "WriteBools", address |-> a, data |-> b] :
                    a \in Addresses, b \in BitVectors(n)} : n \in 0..MaxBits}

\* end-codes a PLC may answer with, besides 0x0000
ErrorCodes == {49233, 49236, 49232, 49237, 16433, 1}

\* the device memory image a read request covers, two bytes per point
ReadImage(r, seed) ==
    IF r.kind \in WordReadKinds
    THEN LET w == ValueBytes(r.kind)
         IN [j \in 1..(r.quantity * w) |->
                ByteOf(PatternValue(r.kind, seed, ((j - 1) \div w) + 1), (j - 1) % w)]
    ELSE [j \in 1..(2 * QuantityOrLen(r)) |-> (seed * 31 + j * 13) % 256]

\* the data of the k-th sub-response: 2 bytes per point read, none for writes
ReplyData(r, frame, k, seed) ==
    IF r.kind \in ReadKinds
    THEN SubSeq(ReadImage(r, seed), 2 * LIMIT * (k - 1) + 1,
                2 * LIMIT * (k - 1) + 2 * FrameCount(frame))
    ELSE <<>>

\* a sub-response payload as the stream framer hands it on: end-code, data
ReplyPayload(code, data) == <<code % 256, code \div 256>> \o data

(***************************************************************************)
(* Codec specification: one call encodes a request, takes the response to  *)
(* its first frame from the connection and decodes that one payload        *)
(***************************************************************************)
CodecInit ==
    /\ request \in Requests
    /\ frames = <<>>
    /\ replies = <<>>
    /\ result = [tag |-> "None"]
    /\ stage = "start"
    /\ script = <<>>
    /\ pc = "idle"
    /\ results = <<>>
    /\ written = 0
    /\ received = 0
    /\ rbuf = <<>>
    /\ c2s = <<>>
    /\ s2c = <<>>
    /\ sbuf = <<>>
    /\ srv = "serving"
    /\ mem = <<>>
    /\ FramerIdle
    /\ AddrIdle
    /\ WideIdle
    /\ PlcIdle
    /\ ZoneIdle
    /\ SyncIdle
    /\ ServeIdle

DoEncode ==
    /\ stage = "start"
    /\ frames' = Encode(request)
    /\ stage' = "encoded"
    /\ UNCHANGED <<request, replies, result>>
    /\ UNCHANGED netvars
    /\ UNCHANGED framervars
    /\ UNCHANGED <<addrvars, servevars, syncvars, zonevars, plcvars, widevars>>

\* TcpClient::call, framed.next(): the call takes one response payload
\* from the connection, the answer of the peer to the first frame of the
\* request with an end-code of the peer's choice, and no more; that payload
\* is the only element of the vector handed to the decoder. A request
\* encoded to no frame is not answered
DoRespond ==
    /\ stage = "encoded"
    /\ Len(frames) > 0
    /\ \E seed \in 1..MaxSeed, code \in ErrorCodes \cup {0} :
          replies' = <<ReplyPayload(code, ReplyData(request, frames[1], 1, seed))>>
    /\ stage' = "replied"
    /\ UNCHANGED <<request, frames, result>>
    /\ UNCHANGED netvars
    /\ UNCHANGED framervars
    /\ UNCHANGED <<addrvars, servevars, syncvars, zonevars, plcvars, widevars>>

\* TcpClient::call, ClientDecoder::decode(vec![raw_response], request): the
\* vector of that one payload is decoded for the request
DoDecode ==
    /\ stage = "replied"
    /\ result' = Decode(replies, request)
    /\ stage' = "decoded"
    /\ UNCHANGED <<request, frames, replies>>
    /\ UNCHANGED netvars
    /\ UNCHANGED framervars
    /\ UNCHANGED <<addrvars, servevars, syncvars, zonevars, plcvars, widevars>>

CodecNext == DoEncode \/ DoRespond \/ DoDecode

CodecSpec == CodecInit /\ [][CodecNext]_vars

(***************************************************************************)
(* Session specification: a client context calls over one connection       *)
(* served by the test server                                                *)
(***************************************************************************)
\* payload sizes in words of the byte-layer calls: below, at and above LIMIT
U8sWordSizes == {0, 1, 2, LIMIT, LIMIT + 1}

\* bit vector lengths drawn by pattern, besides every vector up to MaxBits
BoolPatternSizes == {16, 17, LIMIT, LIMIT + 1}

\* byte j of the payload pattern of a write_u8s call
PatternByte(seed, j) == (seed * 31 + j * 13) % 256

\* words words from address lie inside the zone of the test server
FitsZone(address, words) ==
    IF address.prefix = "D" THEN 2 * (address.number + words) <= ZONE_BYTES
    ELSE address.number + 16 * words <= ZONE_BITS

\* the Context::write_u8s calls of the client program, inside the zones
WriteU8sCalls ==
    UNION {{[op |-> "write_u8s", address |-> a,
             data |-> [j \in 1..(2 * n) |-> PatternByte(sd, j)]] :
               n \in {m \in U8sWordSizes : FitsZone(a, m)}, sd \in 1..MaxSeed} :
           a \in Addresses}

\* the Context::write_bools calls of the client program
WriteBoolsCalls ==
    {[op |-> "write_bools", address |-> a,
      data |-> [i \in 1..n |-> PatternBit(sd, i)]] :
         a \in Addresses, n \in BoolPatternSizes, sd \in 1..MaxSeed}
    \cup UNION {{[op |-> "write_bools", address |-> a, data |-> b] :
                    a \in Addresses, b \in BitVectors(n)} : n \in 0..MaxBits}

\* the call that reads back what a write call wrote: Context::read_u8s of
\* len / 2 words, Context::read_bools of len bits, at the same address
ReadBack(w) ==
    IF w.op = "write_u8s"
    THEN [op |-> "read_u8s", address |-> w.address,
          quantity |-> Len(w.data) \div 2]
    ELSE [op |-> "read_bools", address |-> w.address, quantity |-> Len(w.data)]

\* a client program: one write call, then read-back calls
Script(w) == [i \in 1..MaxCalls |-> IF i = 1 THEN w ELSE ReadBack(w)]

\* the request a context method hands to Client::call; process_address of
\* the Mitsubishi model leaves the address as it is
ContextRequest(c) ==
    CASE c.op = "write_u8s" ->
            [kind |-> "WriteU8s", address |-> c.address, data |-> c.data]
      [] c.op = "read_u8s" ->
            [kind |-> "ReadU8s", address |-> c.address, quantity |-> c.quantity]
      [] c.op = "write_bools" ->
            [kind |-> "WriteBools", address |-> c.address, data |-> c.data]
      [] OTHER ->
            [kind |-> "ReadBools", address |-> c.address, quantity |-> c.quantity]

RECURSIVE Flatten(_)
\* the bytes of several socket writes, in order
Flatten(chunks) ==
    IF chunks = <<>> THEN <<>> ELSE chunks[1] \o Flatten(Tail(chunks))

\* a connection just accepted: nothing sent, every zone zeroed
NetStart ==
    /\ request = [kind |-> "None"]
    /\ frames = <<>>
    /\ replies = <<>>
    /\ result = [tag |-> "None"]
    /\ stage = "session"
    /\ pc = "idle"
    /\ results = <<>>
    /\ written = 0
    /\ received = 0
    /\ rbuf = <<>>
    /\ c2s = <<>>
    /\ s2c = <<>>
    /\ sbuf = <<>>
    /\ srv = "serving"
    /\ mem = NewZones
    /\ FramerIdle
    /\ AddrIdle
    /\ WideIdle
    /\ PlcIdle
    /\ ZoneIdle
    /\ SyncIdle
    /\ ServeIdle

NetInit ==
    /\ \/ \E w \in WriteU8sCalls : script = Script(w)
       \/ \E w \in WriteBoolsCalls : script = Script(w)
    /\ NetStart

\* TcpClient::call up to the end of framed.send: the read buffer is
\* cleared, the request is encoded and every frame is flushed to the socket
ClientSend ==
    /\ pc \in {"idle", "errored"}
    /\ Len(results) < Len(script)
    /\ LET req == ContextRequest(script[Len(results) + 1])
           parts == Encode(req)
       IN /\ request' = req
          /\ frames' = parts
          /\ c2s' = IF parts = <<>> THEN c2s
                    ELSE Append(c2s, ClientCodecEncode(parts))
          /\ written' = Len(parts)
    /\ rbuf' = <<>>
    /\ received' = 0
    /\ pc' = IF pc = "errored" THEN "awaiting-errored" ELSE "awaiting"
    /\ UNCHANGED <<script, replies, result, stage, results, s2c, sbuf, srv, mem>>
    /\ UNCHANGED framervars
    /\ UNCHANGED <<addrvars, servevars, syncvars, zonevars, plcvars, widevars>>

\* TcpClient::call from framed.next: the socket is read into the read
\* buffer, one response payload is taken from it and decoded as the only
\* element of the vector handed to the decoder. A decoder error is returned
\* with the bytes left in the read buffer, and the stream then ends once:
\* the next framed.next yields None without reading, which call returns as
\* UnexpectedEof
ClientReceive ==
    /\ pc \in {"awaiting", "awaiting-errored"}
    /\ IF pc = "awaiting-errored"
       THEN /\ replies' = <<>>
            /\ result' = [tag |-> "Err", error |-> "UnexpectedEof"]
            /\ pc' = "idle"
            /\ UNCHANGED <<s2c, rbuf, received>>
       ELSE \E k \in 1..Len(s2c) :
          LET item == McClientDecoder(rbuf \o Flatten(SubSeq(s2c, 1, k)))
          IN /\ item.tag # "None"
             /\ s2c' = SubSeq(s2c, k + 1, Len(s2c))
             /\ IF item.tag = "Err"
                THEN /\ replies' = <<>>
                     /\ result' = [tag |-> "Err", error |-> "InvalidData"]
                     /\ rbuf' = rbuf \o Flatten(SubSeq(s2c, 1, k))
                     /\ pc' = "errored"
                     /\ UNCHANGED received
                ELSE /\ replies' = <<item.payload>>
                     /\ result' = Decode(<<item.payload>>, request)
                     /\ rbuf' = item.rest
                     /\ received' = received + 1
                     /\ pc' = IF result'.tag = "Panic" THEN "closed" ELSE "idle"
    /\ results' = Append(results, result')
    /\ UNCHANGED <<script, request, frames, stage, written, c2s, sbuf, srv, mem>>
    /\ UNCHANGED framervars
    /\ UNCHANGED <<addrvars, servevars, syncvars, zonevars, plcvars, widevars>>

\* process: framed.next finds no complete request in the read buffer and
\* reads the next bytes from the socket
ServerRead ==
    /\ srv = "serving"
    /\ c2s # <<>>
    /\ McServerDecoder(sbuf).tag = "None"
    /\ sbuf' = sbuf \o Head(c2s)
    /\ c2s' = Tail(c2s)
    /\ UNCHANGED <<script, request, frames, replies, result, stage, pc,
                   results, written, received, rbuf, s2c, srv, mem>>
    /\ UNCHANGED framervars
    /\ UNCHANGED <<addrvars, servevars, syncvars, zonevars, plcvars, widevars>>

\* process: one request is taken from the read buffer, parsed, served and
\* answered; a request that does not parse ends the connection task
ServerProcess ==
    /\ srv = "serving"
    /\ McServerDecoder(sbuf).tag # "None"
    /\ LET item == McServerDecoder(sbuf)
           req == ServerDecode(item.payload)
       IN IF item.tag = "Err" \/ req.kind = "Err"
          THEN /\ srv' = "closed"
               /\ UNCHANGED <<sbuf, s2c, mem>>
          ELSE /\ sbuf' = item.rest
               /\ mem' = ServiceZones(mem, req)
               /\ s2c' = Append(s2c, ServerCodecEncode(ServiceResponse(mem, req)))
               /\ srv' = srv
    /\ UNCHANGED <<script, request, frames, replies, result, stage, pc,
                   results, written, received, rbuf, c2s>>
    /\ UNCHANGED framervars
    /\ UNCHANGED <<addrvars, servevars, syncvars, zonevars, plcvars, widevars>>

NetNext == ClientSend \/ ClientReceive \/ ServerRead \/ ServerProcess

NetSpec == NetInit /\ [][NetNext]_vars

(***************************************************************************)
(* Properties of the codec                                                 *)
(***************************************************************************)
\* the k-th contiguous slice of a write payload, as the claim describes it
PayloadSlice(r, k, count) ==
    IF r.kind = "WriteBools"
    THEN bools_to_bytes(SubSeq(r.data, LIMIT * (k - 1) + 1, LIMIT * (k - 1) + count))
    ELSE SubSeq(WritePayload(r), 2 * LIMIT * (k - 1) + 1,
                2 * LIMIT * (k - 1) + 2 * count)

RECURSIVE ConcatData(_)
ConcatData(fs) ==
    IF fs = <<>> THEN <<>>
    ELSE ConcatData(SubSeq(fs, 1, Len(fs) - 1)) \o FrameData(fs[Len(fs)])

AllSucceeded == \A k \in 1..Len(replies) : EndCode(replies[k]) = 0

\* C1: once a request is encoded, the encoder has emitted ceil(T/LIMIT)
\* frames for its T points; every frame but the last carries LIMIT points,
\* the last carries the remainder, and frame k starts at start + k*LIMIT.
C1_Chunking ==
    stage # "start" =>
        LET T == QuantityOrLen(request)
            N == Len(frames)
        IN /\ N = CeilDiv(T, LIMIT)
           /\ \A k \in 1..N :
                 /\ FrameCount(frames[k]) =
                        (IF k < N THEN LIMIT ELSE T - LIMIT * (N - 1))
                 /\ FrameCount(frames[k]) > 0
                 /\ FrameCount(frames[k]) <= LIMIT
                 /\ FrameAddress(frames[k]) =
                        request.address.number + LIMIT * (k - 1)
           /\ (T > 0 /\ T <= LIMIT) =>
                 /\ N = 1
                 /\ FrameCount(frames[1]) = T
                 /\ FrameAddress(frames[1]) = request.address.number

C1_Witness ==
    /\ stage = "encoded"
    /\ request.kind = "WriteU32s"
    /\ Len(frames) = 3
    /\ FrameCount(frames[2]) = LIMIT
    /\ FrameCount(frames[3]) = 2
    /\ FrameAddress(frames[3]) = request.address.number + 2 * LIMIT

\* C2: in a write request split into several frames, frame k carries the
\* k-th contiguous slice of the payload and the frames' payloads joined in
\* order are the whole payload.
C2_FrameCarriesItsSlice ==
    (stage # "start" /\ request.kind \in WriteKinds) =>
        /\ \A k \in 1..Len(frames) :
              FrameData(frames[k]) = PayloadSlice(request, k, FrameCount(frames[k]))
        /\ ConcatData(frames) = WritePayload(request)

\* C6: decoding yields a response only if every sub-response carries the
\* end-code 0x0000; any other end-code yields a protocol error.
C6_NonZeroEndCodeIsError ==
    stage = "decoded" =>
        /\ (result.tag = "Ok" => AllSucceeded)
        /\ (~AllSucceeded => result.tag = "Err")

\* C8: a write of n bits that fits one frame carries ceil(n/2) bytes; the
\* high nibble of byte i is bit 2i, the low nibble is bit 2i+1, or 0 when
\* the vector ends after bit 2i; [1,0,1,1,1] packs to 0x10 0x11 0x10.
C8_BitPacking ==
    (stage # "start" /\ request.kind = "WriteBools"
        /\ Len(request.data) > 0 /\ Len(request.data) <= LIMIT) =>
        LET b == request.data
            packed == FrameData(frames[1])
        IN /\ Len(packed) = CeilDiv(Len(b), 2)
           /\ \A i \in 1..Len(packed) :
                 /\ packed[i] \div 16 = BoolToU8(b[2 * i - 1])
                 /\ packed[i] % 16 = (IF 2 * i <= Len(b) THEN BoolToU8(b[2 * i]) ELSE 0)
           /\ (b = <<TRUE, FALSE, TRUE, TRUE, TRUE>> => packed = <<16, 17, 16>>)

C8_Witness ==
    /\ stage = "encoded"
    /\ request.kind = "WriteBools"
    /\ request.data = <<TRUE, FALSE, TRUE, TRUE, TRUE>>
    /\ FrameData(frames[1]) = <<16, 17, 16>>

\* C9: a bit read of q bits takes two bits from each payload byte,
\* bit 4 first and bit 0 second, and returns exactly q bits.
C9_TwoBitsPerByte ==
    (stage = "decoded" /\ request.kind = "ReadBools" /\ AllSucceeded) =>
        LET data == JoinData(replies)
        IN /\ result.tag = "Ok"
           /\ Len(result.values) = request.quantity
           /\ \A i \in 1..request.quantity :
                 result.values[i] =
                    (IF (i - 1) % 2 = 0
                     THEN (data[((i - 1) \div 2) + 1] \div 16) % 2 = 1
                     ELSE data[((i - 1) \div 2) + 1] % 2 = 1)

(***************************************************************************)
(* Properties of a session                                                 *)
(***************************************************************************)
\* the client has returned from at least one call and is between calls
CallReturned == pc = "idle" /\ results # <<>>

\* C4: a call whose request was encoded into N frames returns a response
\* only after collecting N sub-responses, one per frame, and decodes the
\* payloads of all N; it never returns a result built from fewer.
C4_CollectsEveryResponse ==
    (CallReturned /\ result.tag = "Ok") =>
        /\ received = written
        /\ Len(replies) = Len(frames)

\* C5: during a call the sub-frames go out one at a time: at most one
\* frame more than the sub-responses already parsed has been written.
C5_SequentialSubFrames ==
    pc = "awaiting" => written <= received + 1

\* C3: write_u8s(addr, p) followed by read_u8s(addr, len(p)/2) on the same
\* connection returns p byte for byte, whatever the payload size.
C3_ByteRoundTrip ==
    (script[1].op = "write_u8s" /\ Len(results) >= 2) =>
        results[2] = [tag |-> "Ok", kind |-> "ReadU8s", values |-> script[1].data]

\* C10: write_bools(addr, b) followed by read_bools(addr, len(b)) on the
\* same connection returns b bit for bit.
C10_BitRoundTrip ==
    (script[1].op = "write_bools" /\ Len(results) >= 2) =>
        results[2] = [tag |-> "Ok", kind |-> "ReadBools", values |-> script[1].data]

(***************************************************************************)
(* Properties of the emitted request frames                                *)
(***************************************************************************)
\* C11: the four function-code bytes of every emitted frame follow the
\* operation kind: 01 04 00 00 word read, 01 14 00 00 word write,
\* 01 04 01 00 bit read, 01 14 01 00 bit write.
C11_FunctionCodes ==
    stage # "start" =>
        \A k \in 1..Len(frames) :
            FrameFunction(frames[k]) =
                CASE request.kind \in WordReadKinds -> <<1, 4, 0, 0>>
                  [] request.kind \in WordWriteKinds -> <<1, 20, 0, 0>>
                  [] request.kind = "ReadBools" -> <<1, 4, 1, 0>>
                  [] OTHER -> <<1, 20, 1, 0>>

\* C12: every emitted frame starts with 50 00 00 FF FF 03 00, a two-byte
\* little-endian length and the monitoring timer 10 00, and the length is
\* the number of bytes from the monitoring timer to the end of the frame.
C12_HeaderAndLength ==
    stage # "start" =>
        \A k \in 1..Len(frames) :
            /\ Len(frames[k]) >= 21
            /\ SubSeq(frames[k], 1, 7) = <<80, 0, 0, 255, 255, 3, 0>>
            /\ SubSeq(frames[k], 10, 11) = <<16, 0>>
            /\ frames[k][8] + 256 * frames[k][9] = Len(frames[k]) - 9

C12_Witness ==
    /\ stage = "encoded"
    /\ request.kind = "WriteU16s"
    /\ Len(frames) = 2
    /\ Len(frames[1]) = 21 + 2 * LIMIT
    /\ frames[1][8] + 256 * frames[1][9] = 12 + 2 * LIMIT
    /\ frames[2][8] + 256 * frames[2][9] = 14

(***************************************************************************)
(* Framer specification: a peer writes frames to a byte stream, the stream *)
(* is read in pieces into the read buffer, the decoder is polled            *)
(***************************************************************************)
\* the responses a server writes, by name
ResponseNames == {"ack_u8s", "ack_bits", "words0", "words2", "words127",
                  "byte1", "bits0", "bits1", "bits2", "bits3", "bits5"}

\* the responses that are combined into streams of several frames
CoreResponseNames == {"ack_u8s", "words2", "bits3"}

\* Response values handed to ServerCodec::encode
ResponseOf(name) ==
    CASE name = "ack_u8s" -> [kind |-> "WriteU8s", values |-> <<>>]
      [] name = "ack_bits" -> [kind |-> "WriteBits", values |-> <<>>]
      [] name = "words0" -> [kind |-> "ReadU8s", values |-> <<>>]
      [] name = "words2" -> [kind |-> "ReadU8s", values |-> <<52, 18, 205, 171>>]
      [] name = "words127" ->
            [kind |-> "ReadU8s", values |-> [j \in 1..254 |-> PatternByte(1, j)]]
      [] name = "byte1" -> [kind |-> "ReadU8s", values |-> <<51>>]
      [] name = "bits0" -> [kind |-> "ReadBits", values |-> <<>>]
      [] name = "bits1" -> [kind |-> "ReadBits", values |-> <<TRUE>>]
      [] name = "bits2" -> [kind |-> "ReadBits", values |-> <<FALSE, TRUE>>]
      [] name = "bits3" -> [kind |-> "ReadBits", values |-> <<TRUE, FALSE, TRUE>>]
      [] OTHER -> [kind |-> "ReadBits",
                   values |-> <<TRUE, TRUE, FALSE, TRUE, TRUE>>]

\* the requests a client writes, by name
RequestNames == {"read", "write_words", "write_bits"}

\* Request values handed to the client encoder, one frame each
RequestOf(name) ==
    CASE name = "read" ->
            [kind |-> "ReadU16s", address |-> [prefix |-> "D", number |-> 100],
             quantity |-> 2]
      [] name = "write_words" ->
            [kind |-> "WriteU16s", address |-> [prefix |-> "D", number |-> 0],
             data |-> <<4660, 43981>>]
      [] OTHER ->
            [kind |-> "WriteBools", address |-> [prefix |-> "X", number |-> 16],
             data |-> <<TRUE, FALSE, TRUE>>]

\* frames that do not belong on the stream: a frame of the other direction
\* and a frame with a changed station byte
BadNames == {"foreign", "corrupt"}

\* the bytes the peer writes for an item
ItemBytes(side, name) ==
    LET good == IF side = "client"
                THEN ServerCodecEncode(ResponseOf(
                        IF name \in ResponseNames THEN name ELSE "words2"))
                ELSE Encode(RequestOf(
                        IF name \in RequestNames THEN name ELSE "write_words"))[1]
    IN CASE name = "foreign" ->
              IF side = "client" THEN Encode(RequestOf("read"))[1]
              ELSE ServerCodecEncode(ResponseOf("ack_u8s"))
         [] name = "corrupt" -> [good EXCEPT ![7] = 1]
         [] OTHER -> good

\* most frames of one stream
MaxFrames == 2

\* longest piece of the stream handed over by one read, short of all of it
MaxPiece == 12

RECURSIVE SeqsOver(_, _)
\* the sequences of exactly n elements of S
SeqsOver(S, n) ==
    IF n = 0 THEN {<<>>}
    ELSE {Append(q, x) : q \in SeqsOver(S, n - 1), x \in S}

\* what a peer may write on one connection
Streams(side) ==
    LET all == IF side = "client" THEN ResponseNames ELSE RequestNames
        core == IF side = "client" THEN CoreResponseNames ELSE RequestNames
    IN {<<n>> : n \in all \cup BadNames}
       \cup UNION {SeqsOver(core \cup BadNames, n) : n \in 2..MaxFrames}

\* Decoder::decode of the codec of a side
FramerDecoder(side, buf) ==
    IF side = "client" THEN McClientDecoder(buf) ELSE McServerDecoder(buf)

FramerInit ==
    /\ role \in {"client", "server"}
    /\ items \in Streams(role)
    /\ nsent = 0
    /\ wire = <<>>
    /\ fbuf = <<>>
    /\ emitted = <<>>
    /\ fstate = "open"
    /\ request = [kind |-> "None"]
    /\ frames = <<>>
    /\ replies = <<>>
    /\ result = [tag |-> "None"]
    /\ stage = "framer"
    /\ script = <<>>
    /\ pc = "idle"
    /\ results = <<>>
    /\ written = 0
    /\ received = 0
    /\ rbuf = <<>>
    /\ c2s = <<>>
    /\ s2c = <<>>
    /\ sbuf = <<>>
    /\ srv = "serving"
    /\ mem = <<>>
    /\ AddrIdle
    /\ WideIdle
    /\ PlcIdle
    /\ ZoneIdle
    /\ SyncIdle
    /\ ServeIdle

\* the peer encodes its next item and writes the frame to the stream
PeerWrite ==
    /\ nsent < Len(items)
    /\ wire' = wire \o ItemBytes(role, items[nsent + 1])
    /\ nsent' = nsent + 1
    /\ UNCHANGED <<role, items, fbuf, emitted, fstate>>
    /\ UNCHANGED <<codecvars, netvars, addrvars, servevars, syncvars, zonevars, plcvars, widevars>>

\* Framed reads some of the bytes that have arrived into the read buffer
FramerRead ==
    /\ fstate = "open"
    /\ \E n \in 1..Len(wire) :
          /\ n <= MaxPiece \/ n = Len(wire)
          /\ fbuf' = fbuf \o SubSeq(wire, 1, n)
          /\ wire' = SubSeq(wire, n + 1, Len(wire))
    /\ UNCHANGED <<role, items, nsent, emitted, fstate>>
    /\ UNCHANGED <<codecvars, netvars, addrvars, servevars, syncvars, zonevars, plcvars, widevars>>

\* Framed polls Decoder::decode on the read buffer: need more data, a
\* payload split off the front of the buffer, or an error that ends the
\* stream
FramerDecode ==
    /\ fstate = "open"
    /\ LET item == FramerDecoder(role, fbuf)
       IN CASE item.tag = "Some" ->
                  /\ emitted' = Append(emitted, item.payload)
                  /\ fbuf' = item.rest
                  /\ fstate' = fstate
            [] item.tag = "Err" ->
                  /\ fstate' = "failed"
                  /\ UNCHANGED <<emitted, fbuf>>
            [] OTHER -> UNCHANGED <<emitted, fbuf, fstate>>
    /\ UNCHANGED <<role, items, nsent, wire>>
    /\ UNCHANGED <<codecvars, netvars, addrvars, servevars, syncvars, zonevars, plcvars, widevars>>

FramerNext == PeerWrite \/ FramerRead \/ FramerDecode

FramerSpec == FramerInit /\ [][FramerNext]_vars

(***************************************************************************)
(* Properties of the stream framers and of the server encoder              *)
(***************************************************************************)
\* the frame the peer wrote for its i-th item
WrittenFrame(i) == ItemBytes(role, items[i])

\* the bytes of the written frames from..to, in stream order
RECURSIVE WrittenBytes(_, _)
WrittenBytes(from, to) ==
    IF from > to THEN <<>>
    ELSE WrittenFrame(from) \o WrittenBytes(from + 1, to)

\* every frame of the stream starts with the prefix of its direction
RightPrefixes == \A i \in 1..Len(items) : items[i] \notin BadNames

\* the length field of a frame counts the bytes that follow the header
WellSized(frame) == frame[8] + 256 * frame[9] = Len(frame) - 9

\* every frame of the stream is a well-formed frame of the right direction
AllWellFormed ==
    /\ RightPrefixes
    /\ \A i \in 1..Len(items) : WellSized(WrittenFrame(i))

\* the index of the first frame with a wrong prefix, or 0
FirstBad ==
    IF RightPrefixes THEN 0
    ELSE CHOOSE i \in 1..Len(items) :
            /\ items[i] \in BadNames
            /\ \A j \in 1..(i - 1) : items[j] \notin BadNames

\* what a framer emits for a frame: the bytes after the nine header bytes
\* on the client side, the bytes from the length field on the server side
FramePayload(side, frame) ==
    SubSeq(frame, (IF side = "client" THEN 9 ELSE 7) + 1, Len(frame))

\* the header length the framer of a side waits for
FramerHeaderLen(side) ==
    IF side = "client" THEN Len(ResponseHeader) ELSE Len(RequestHeader)

\* C13: however a stream of well-formed frames is cut into reads, the
\* framer emits one payload per frame, in stream order, has consumed exactly
\* the bytes of the frames it emitted, keeps the following bytes for the
\* next frame, and reports "need more" exactly while the next frame is not
\* whole in the buffer.
C13_FramingIgnoresFragmentation ==
    (stage = "framer" /\ AllWellFormed) =>
        /\ fstate = "open"
        /\ Len(emitted) <= nsent
        /\ \A i \in 1..Len(emitted) :
              emitted[i] = FramePayload(role, WrittenFrame(i))
        /\ fbuf \o wire = WrittenBytes(Len(emitted) + 1, nsent)
        /\ (FramerDecoder(role, fbuf).tag = "None") <=>
              (\/ Len(emitted) = nsent
               \/ Len(fbuf) < Len(WrittenFrame(Len(emitted) + 1)))
        /\ FramerDecoder(role, fbuf).tag # "Err"

C13_Witness ==
    /\ stage = "framer"
    /\ role = "client"
    /\ AllWellFormed
    /\ nsent = 2
    /\ Len(emitted) = 1
    /\ Len(fbuf) = 5
    /\ wire # <<>>

\* C14: a frame whose first seven bytes are not the prefix of the framer's
\* side is a decode error as soon as a full header of it is buffered, and
\* no payload is emitted for it.
C14_WrongPrefixIsFatal ==
    (stage = "framer" /\ ~RightPrefixes) =>
        /\ Len(emitted) < FirstBad
        /\ (Len(emitted) = FirstBad - 1 /\ nsent >= FirstBad
                /\ Len(fbuf) >= FramerHeaderLen(role)) =>
              FramerDecoder(role, fbuf).tag = "Err"
        /\ fstate = "failed" => Len(emitted) = FirstBad - 1

C14_Witness ==
    /\ stage = "framer"
    /\ role = "server"
    /\ items = <<"write_bits", "corrupt">>
    /\ Len(emitted) = 1
    /\ fstate = "failed"

\* C15: a response written by the server encoder is D0 00 00 FF FF 03 00,
\* the little-endian data length, end-code 00 00 and the payload; the data
\* length is 2 plus the payload bytes written; an acknowledgement has no
\* payload, n bits are carried in ceil(n/2) packed bytes; the client framer
\* takes each written response as exactly one frame.
C15_ResponseFrames ==
    (stage = "framer" /\ role = "client") =>
        \A i \in 1..nsent :
            items[i] \in ResponseNames =>
                LET f == WrittenFrame(i)
                    item == ResponseOf(items[i])
                    payload == SubSeq(f, 12, Len(f))
                IN /\ SubSeq(f, 1, 7) = <<208, 0, 0, 255, 255, 3, 0>>
                   /\ f[8] + 256 * f[9] = 2 + Len(payload)
                   /\ SubSeq(f, 10, 11) = <<0, 0>>
                   /\ item.kind \in {"WriteU8s", "WriteBits"} =>
                         (payload = <<>> /\ f[8] + 256 * f[9] = 2)
                   /\ item.kind = "ReadU8s" => payload = item.values
                   /\ item.kind = "ReadBits" =>
                         /\ Len(payload) = CeilDiv(Len(item.values), 2)
                         /\ UnpackBits(payload, Len(item.values)) = item.values
                   /\ McClientDecoder(f) =
                         [tag |-> "Some", payload |-> <<0, 0>> \o payload,
                          rest |-> <<>>]
                   /\ (AllWellFormed /\ Len(emitted) >= i) =>
                         emitted[i] = <<0, 0>> \o payload

(***************************************************************************)
(* Address text: src/src/frame/map.rs, src/src/frame/regex.rs.  A text is  *)
(* a sequence of one-character strings; a u32 is kept as two 16-bit halves *)
(* so that checked arithmetic overflows where the code's does.             *)
(***************************************************************************)
DecDigits == <<"0", "1", "2", "3", "4", "5", "6", "7", "8", "9">>

UpperLetters ==
    <<"A", "B", "C", "D", "E", "F", "G", "H", "I", "J", "K", "L", "M",
      "N", "O", "P", "Q", "R", "S", "T", "U", "V", "W", "X", "Y", "Z">>

LowerLetters ==
    <<"a", "b", "c", "d", "e", "f", "g", "h", "i", "j", "k", "l", "m",
      "n", "o", "p", "q", "r", "s", "t", "u", "v", "w", "x", "y", "z">>

HexDigitsUpper == DecDigits \o SubSeq(UpperLetters, 1, 6)

RangeOf(seq) == {seq[i] : i \in 1..Len(seq)}

\* the position of character c in seq, counted from 0
IndexIn(seq, c) == (CHOOSE i \in 1..Len(seq) : seq[i] = c) - 1

\* u8::is_ascii_digit
is_ascii_digit(c) == c \in RangeOf(DecDigits)

\* u8::is_ascii_alphanumeric
is_ascii_alphanumeric(c) ==
    c \in RangeOf(DecDigits) \cup RangeOf(UpperLetters) \cup RangeOf(LowerLetters)

\* Option::None / failed parse
NoValue == [some |-> FALSE]

\* a u32 as hi * 65536 + lo
U32(hi, lo) == [some |-> TRUE, hi |-> hi, lo |-> lo]

\* u32 from a natural number below 2^31
U32Of(n) == U32(n \div 65536, n % 65536)

\* u32::checked_mul by a small factor
checked_mul(x, k) ==
    LET lo == x.lo * k
        hi == x.hi * k + lo \div 65536
    IN IF hi >= 65536 THEN NoValue ELSE U32(hi, lo % 65536)

\* u32::checked_add of a small addend
checked_add(x, d) ==
    LET lo == x.lo + d
        hi == x.hi + lo \div 65536
    IN IF hi >= 65536 THEN NoValue ELSE U32(hi, lo % 65536)

\* the digit value of a character in a base, or -1
DigitValue(c, base) ==
    IF c \in RangeOf(DecDigits) THEN IndexIn(DecDigits, c)
    ELSE IF base = 16 /\ c \in RangeOf(SubSeq(UpperLetters, 1, 6))
    THEN IndexIn(UpperLetters, c) + 10
    ELSE IF base = 16 /\ c \in RangeOf(SubSeq(LowerLetters, 1, 6))
    THEN IndexIn(LowerLetters, c) + 10
    ELSE -1

\* the loop of convert_to_base from character i on, result so far in acc
RECURSIVE ConvertLoop(_, _, _, _)
ConvertLoop(s, i, acc, base) ==
    IF i > Len(s) THEN acc
    ELSE IF DigitValue(s[i], base) < 0 THEN NoValue
    ELSE LET m == checked_mul(acc, base)
         IN IF ~m.some THEN NoValue
            ELSE LET a == checked_add(m, DigitValue(s[i], base))
                 IN IF ~a.some THEN NoValue
                    ELSE ConvertLoop(s, i + 1, a, base)

\* convert_to_base: Some(0) for empty text, None on a character that is not
\* a digit of the base or on u32 overflow
convert_to_base(s, number_base) ==
    ConvertLoop(s, 1, U32(0, 0), IF number_base = "Decimal" THEN 10 ELSE 16)

\* PLC_INSTRUCTIONS: prefix -> numeric base
PlcBase(prefix) ==
    IF prefix \in {"X", "Y", "B", "ZR", "W"} THEN "Hexadecimal" ELSE "Decimal"

\* the prefixes of PLC_INSTRUCTIONS
PlcPrefixes ==
    {"X", "Y", "F", "M", "L", "D", "R", "B", "SM", "SD", "ZR", "W",
     "TN", "TS", "CN", "CS"}

\* a text as one string
RECURSIVE Joined(_)
Joined(s) == IF s = <<>> THEN "" ELSE s[1] \o Joined(Tail(s))

\* find_instruction_code: Some((code, base)) or None
find_instruction_code(prefix) ==
    IF Joined(prefix) \in PlcPrefixes
    THEN [some |-> TRUE, code |-> PlcCode(Joined(prefix)),
          base |-> PlcBase(Joined(prefix))]
    ELSE NoValue

\* the one-character arms of the match of split_address
split_prefix_len_single(address) ==
    LET b0 == address[1]
        b1 == address[2]
    IN IF b0 \in {"X", "Y", "B", "W"} /\ is_ascii_alphanumeric(b1) THEN 1
       ELSE IF b0 \in {"F", "M", "L", "R"} /\ is_ascii_digit(b1) THEN 1
       ELSE IF b0 = "D" /\ (is_ascii_digit(b1) \/ b1 = "-") THEN 1
       ELSE 0

\* the match of split_address: two-character prefixes first, then the
\* one-character ones, 0 when no arm matches
split_prefix_len(address) ==
    LET b0 == address[1]
        b1 == address[2]
    IN IF /\ Len(address) >= 3
          /\ <<b0, b1>> \in {<<"S", "M">>, <<"S", "D">>, <<"Z", "R">>,
                             <<"T", "N">>, <<"T", "S">>, <<"C", "N">>,
                             <<"C", "S">>}
          /\ is_ascii_alphanumeric(address[3])
       THEN 2
       ELSE split_prefix_len_single(address)

\* split_address: Some((prefix, number)) or None
split_address(address) ==
    IF Len(address) < 2 THEN NoValue
    ELSE LET prefix_len == split_prefix_len(address)
         IN IF prefix_len > 0 /\ Len(address) > prefix_len
            THEN [some |-> TRUE, prefix |-> SubSeq(address, 1, prefix_len),
                  number |-> SubSeq(address, prefix_len + 1, Len(address))]
            ELSE NoValue

\* parse_address_and_get_instruction_code on a text: each of the three
\* unwrap calls panics on None
ParseAddressText(address) ==
    LET sp == split_address(address)
    IN IF ~sp.some THEN [tag |-> "Panic", at |-> "split_address"]
       ELSE LET fi == find_instruction_code(sp.prefix)
            IN IF ~fi.some
               THEN [tag |-> "Panic", at |-> "find_instruction_code"]
               ELSE LET n == convert_to_base(sp.number, fi.base)
                    IN IF ~n.some
                       THEN [tag |-> "Panic", at |-> "convert_to_base"]
                       ELSE [tag |-> "Ok", prefix |-> Joined(sp.prefix),
                             code |-> fi.code, hi |-> n.hi, lo |-> n.lo]

(***************************************************************************)
(* Keyence addresses: src/src/frame/kv                                     *)
(***************************************************************************)
\* the digits of <sign><digits> in a base as a u32: str::parse::<u32> and
\* u32::from_str_radix accept a leading "+" and no "-"
parse_u32(s, base) ==
    LET digits == IF s # <<>> /\ s[1] = "+" THEN Tail(s) ELSE s
    IN IF digits = <<>> THEN NoValue
       ELSE ConvertLoop(digits, 1, U32(0, 0), base)

\* i32 accumulation towards +2^31 - 1
RECURSIVE I32LoopUp(_, _, _, _)
I32LoopUp(s, i, acc, base) ==
    IF i > Len(s) THEN [some |-> TRUE, value |-> acc]
    ELSE LET d == DigitValue(s[i], base)
         IN IF d < 0 \/ acc > (2147483647 - d) \div base THEN NoValue
            ELSE I32LoopUp(s, i + 1, acc * base + d, base)

\* i32 accumulation towards -2^31
RECURSIVE I32LoopDown(_, _, _, _)
I32LoopDown(s, i, acc, base) ==
    IF i > Len(s) THEN [some |-> TRUE, value |-> acc]
    ELSE LET d == DigitValue(s[i], base)
         IN IF d < 0 \/ acc < ((-2147483647 - 1) + d + base - 1) \div base
            THEN NoValue
            ELSE I32LoopDown(s, i + 1, acc * base - d, base)

\* str::parse::<i32> and i32::from_str_radix: an optional sign, digits
parse_i32(s, base) ==
    IF s = <<>> THEN NoValue
    ELSE IF s[1] \in {"+", "-"}
    THEN IF Len(s) = 1 THEN NoValue
         ELSE IF s[1] = "-" THEN I32LoopDown(Tail(s), 1, 0, base)
         ELSE I32LoopUp(Tail(s), 1, 0, base)
    ELSE I32LoopUp(s, 1, 0, base)

\* quotient and remainder of a u32 by a small divisor
U32DivMod(x, d) ==
    LET rest == (x.hi % d) * 65536 + x.lo
    IN [q |-> U32(x.hi \div d, rest \div d), r |-> rest % d]

\* the digits of a non-zero u32, most significant first
RECURSIVE FormatLoop(_, _)
FormatLoop(x, base) ==
    IF x.hi = 0 /\ x.lo = 0 THEN <<>>
    ELSE LET dm == U32DivMod(x, base)
         IN Append(FormatLoop(dm.q, base), HexDigitsUpper[dm.r + 1])

\* format!("{:X}", x) and format!("{}", x) of a u32
FormatU32(x, base) ==
    IF x.hi = 0 /\ x.lo = 0 THEN <<"0">> ELSE FormatLoop(x, base)

\* format!("{:X}", p) of an i32: two's complement for a negative p
FormatHexI32(p) ==
    IF p >= 0 THEN FormatU32(U32Of(p), 16)
    ELSE FormatU32(U32(65536 + (p \div 65536), p % 65536), 16)

\* KV_INSTRUCTIONS: Keyence prefix -> (Mitsubishi prefix, process)
kv_find(prefix) ==
    LET key == Joined(prefix)
        hit(value, process) ==
            [some |-> TRUE, instruction |-> value, process |-> process]
    IN CASE key = "R" -> hit(<<"X">>, "Hex")
         [] key = "MR" -> hit(<<"M">>, "Decimal")
         [] key = "LR" -> hit(<<"L">>, "Decimal")
         [] key = "DM" -> hit(<<"D">>, "None")
         [] key = "FM" -> hit(<<"R">>, "None")
         [] key = "B" -> hit(<<"B">>, "None")
         [] key = "ZF" -> hit(<<"Z", "R">>, "DecimalToHex")
         [] key = "M" -> hit(<<"M">>, "None")
         [] key = "D" -> hit(<<"D">>, "None")
         [] key = "F" -> hit(<<"R">>, "None")
         [] key = "L" -> hit(<<"L">>, "None")
         [] key = "X" -> hit(<<"X">>, "XYToHex")
         [] key = "Y" -> hit(<<"Y">>, "XYToHex")
         [] OTHER -> NoValue

\* the match of the Keyence split_address
kv_split_prefix_len(address) ==
    LET b0 == address[1]
        b1 == address[2]
    IN IF /\ Len(address) >= 3
          /\ <<b0, b1>> \in {<<"D", "M">>, <<"F", "M">>, <<"M", "R">>,
                             <<"L", "R">>, <<"C", "R">>, <<"C", "M">>,
                             <<"E", "M">>, <<"Z", "F">>}
          /\ is_ascii_alphanumeric(address[3])
       THEN 2
       ELSE IF /\ b0 \in {"R", "X", "Y", "B", "T", "C", "M", "L", "D", "F"}
               /\ is_ascii_alphanumeric(b1)
       THEN 1
       ELSE 0

\* the Keyence split_address: the number part is not empty and made of
\* alphanumerics, "." and "-"
kv_split_address(address) ==
    IF Len(address) < 2 THEN NoValue
    ELSE LET prefix_len == kv_split_prefix_len(address)
             number == SubSeq(address, prefix_len + 1, Len(address))
         IN IF /\ prefix_len > 0
               /\ number # <<>>
               /\ \A i \in 1..Len(number) :
                     is_ascii_alphanumeric(number[i]) \/ number[i] \in {".", "-"}
            THEN [some |-> TRUE, prefix |-> SubSeq(address, 1, prefix_len),
                  number |-> number]
            ELSE NoValue

KvOk(text) == [tag |-> "Ok", text |-> text]

KvErr(error) == [tag |-> "Err", error |-> error]

\* convert_xy_number
convert_xy_number(number) ==
    IF Len(number) = 1
    THEN LET n == parse_i32(number, 16)
         IN IF n.some THEN KvOk(FormatHexI32(n.value))
            ELSE KvErr("InvalidNumberFormat")
    ELSE LET last_char == SubSeq(number, Len(number), Len(number))
             remaining_chars == SubSeq(number, 1, Len(number) - 1)
             parsed == parse_i32(remaining_chars, 10)
             p == IF parsed.some THEN parsed.value ELSE 0
             final_result == parse_i32(FormatHexI32(p) \o last_char, 16)
         IN IF final_result.some THEN KvOk(FormatHexI32(final_result.value))
            ELSE KvErr("InvalidNumberFormat")

\* the Hex and Decimal arms of convert_keyence_to_mitsubishi_address
kv_repack(instruction, process, number) ==
    LET n == parse_u32(number, 10)
    IN IF ~n.some THEN KvErr("ParseNumberError")
       ELSE LET resul1 == U32DivMod(n, 100).r
                result2 == U32DivMod(n, 100).q
                formatted_result1 == FormatU32(U32Of(resul1), 16)
                formatted_result2 ==
                    IF result2.hi = 0 /\ result2.lo = 0 /\ process = "Hex"
                    THEN <<>> ELSE FormatU32(result2, 16)
            IN IF resul1 > 16 THEN KvErr("AddressInvalid")
               ELSE IF process = "Hex"
               THEN KvOk(instruction \o formatted_result2 \o formatted_result1)
               ELSE LET decimal ==
                            parse_u32(formatted_result2 \o formatted_result1, 16)
                    IN IF ~decimal.some THEN KvErr("ConvertError")
                       ELSE KvOk(instruction \o FormatU32(decimal, 10))

\* a dialect rewrite that hands the address on as it is
convert_keyence_unchanged(address) == KvOk(address)

\* convert_keyence_to_mitsubishi_address
convert_keyence_to_mitsubishi_address(address) ==
    LET sp == kv_split_address(address)
    IN IF ~sp.some THEN KvErr("PaseError")
       ELSE LET fi == kv_find(sp.prefix)
            IN IF ~fi.some THEN KvErr("MapNotFound")
               ELSE CASE fi.process \in {"Hex", "Decimal"} ->
                            kv_repack(fi.instruction, fi.process, sp.number)
                      [] fi.process = "DecimalToHex" ->
                            LET n == parse_u32(sp.number, 10)
                            IN IF ~n.some THEN KvErr("ParseNumberError")
                               ELSE KvOk(fi.instruction \o FormatU32(n, 16))
                      [] fi.process = "XYToHex" ->
                            LET xy == convert_xy_number(sp.number)
                            IN IF xy.tag = "Ok" THEN KvOk(fi.instruction \o xy.text)
                               ELSE xy
                      [] OTHER -> KvOk(fi.instruction \o sp.number)

\* Context::process_address
process_address(model, addr) ==
    IF model = "Keyence" THEN convert_keyence_to_mitsubishi_address(addr)
    ELSE KvOk(addr)

\* the frames of Request::ReadU16s(addr, cnt): the address is parsed by
\* parse_address_and_get_instruction_code, and in every pass of the loop
\* request_command asserts that the head device of the frame fits 24 bits;
\* with cnt = 0 the loop is not entered
EncodeReadU16s(addr, cnt) ==
    LET parsed == ParseAddressText(addr)
    IN IF parsed.tag # "Ok" THEN parsed
       ELSE IF cnt = 0 THEN [tag |-> "Sent", frames |-> <<>>]
       ELSE IF parsed.hi >= 256 THEN [tag |-> "Panic", at |-> "request_command"]
       ELSE LET req == [kind |-> "ReadU16s",
                        address |-> [prefix |-> parsed.prefix,
                                     number |-> parsed.hi * 65536 + parsed.lo],
                        quantity |-> cnt]
            IN IF TryEncode(req).tag = "Panic"
               THEN [tag |-> "Panic", at |-> "request_command"]
               ELSE [tag |-> "Sent", frames |-> Encode(req)]

(***************************************************************************)
(* Address specification: one call of convert_to_base, or one read_u16s    *)
(* on a Context of either dialect up to the request frames                 *)
(***************************************************************************)
MaxText == 3

MaxNumber == 1120

\* characters of the sample texts: digits, hex letters of both cases, a
\* letter that is no hex digit, and the two separators
TextAlphabet == {"0", "1", "9", "A", "f", "G", "-", "."}

\* all texts over a set of characters with at most n characters
RECURSIVE TextsOver(_, _)
TextsOver(S, n) ==
    IF n = 0 THEN {<<>>}
    ELSE LET shorter == TextsOver(S, n - 1)
         IN shorter \cup {Append(t, c) : t \in shorter, c \in S}

\* number texts at the 24-bit and 32-bit limits
LimitTexts ==
    {FormatU32(U32(255, 65535), 16), FormatU32(U32(256, 0), 16),
     FormatU32(U32(255, 65535), 10), FormatU32(U32(256, 0), 10),
     FormatU32(U32(65535, 65535), 16), FormatU32(U32(65535, 65535), 10),
     <<"1", "0", "0", "0", "0", "0", "0", "0", "0">>,
     <<"4", "2", "9", "4", "9", "6", "7", "2", "9", "6">>}

NumberTexts == TextsOver(TextAlphabet, MaxText) \cup LimitTexts

\* native prefixes, known and unknown
NativePrefixTexts ==
    {<<"X">>, <<"Y">>, <<"F">>, <<"M">>, <<"L">>, <<"D">>, <<"R">>, <<"B">>,
     <<"W">>, <<"S", "M">>, <<"S", "D">>, <<"Z", "R">>, <<"T", "N">>,
     <<"T", "S">>, <<"C", "N">>, <<"C", "S">>, <<"S">>, <<"T">>, <<"Q">>,
     <<>>}

NativeTexts == {p \o t : p \in NativePrefixTexts, t \in NumberTexts}

\* Keyence prefixes, known and unknown
KvPrefixTexts ==
    {<<"R">>, <<"M", "R">>, <<"L", "R">>, <<"D", "M">>, <<"F", "M">>,
     <<"B">>, <<"Z", "F">>, <<"M">>, <<"D">>, <<"F">>, <<"L">>, <<"X">>,
     <<"Y">>, <<"C", "R">>, <<"C", "M">>, <<"E", "M">>, <<"T">>, <<"C">>,
     <<"Q">>, <<>>}

\* bit-in-word addresses of the Keyence notation
DottedTexts ==
    {<<"1", "0", "0", ".", "0", "1">>, <<"2", "0", "0", ".", "1", "5">>}

KvNumberTexts ==
    {FormatU32(U32Of(n), 10) : n \in 0..MaxNumber}
        \cup NumberTexts \cup DottedTexts

KvTexts == {p \o t : p \in KvPrefixTexts, t \in KvNumberTexts}

AddrInit ==
    /\ \/ /\ op = "convert_to_base"
          /\ plc_model = "Mitsubishi"
          /\ input \in NumberTexts
          /\ radix \in {"Decimal", "Hexadecimal"}
       \/ /\ op = "convert_xy_number"
          /\ plc_model = "Keyence"
          /\ input \in NumberTexts \ {<<>>}
          /\ radix = "Hexadecimal"
       \/ /\ op = "read_u16s"
          /\ plc_model = "Mitsubishi"
          /\ input \in NativeTexts
          /\ radix = "Decimal"
       \/ /\ op = "read_u16s"
          /\ plc_model = "Keyence"
          /\ input \in KvTexts
          /\ radix = "Decimal"
    /\ outcome = [tag |-> "None"]
    /\ astage = "input"
    /\ request = [kind |-> "None"]
    /\ frames = <<>>
    /\ replies = <<>>
    /\ result = [tag |-> "None"]
    /\ stage = "address"
    /\ script = <<>>
    /\ pc = "idle"
    /\ results = <<>>
    /\ written = 0
    /\ received = 0
    /\ rbuf = <<>>
    /\ c2s = <<>>
    /\ s2c = <<>>
    /\ sbuf = <<>>
    /\ srv = "serving"
    /\ mem = <<>>
    /\ FramerIdle
    /\ ServeIdle
    /\ SyncIdle
    /\ ZoneIdle
    /\ PlcIdle
    /\ WideIdle

\* one call of convert_to_base
ConvertToBase ==
    /\ op = "convert_to_base"
    /\ astage = "input"
    /\ outcome' = convert_to_base(input, radix)
    /\ astage' = "done"
    /\ UNCHANGED <<plc_model, op, input, radix>>
    /\ UNCHANGED <<codecvars, netvars, framervars, servevars, syncvars, zonevars, plcvars, widevars>>

\* one call of convert_xy_number on the number part of a Keyence X or Y
\* address
ConvertXY ==
    /\ op = "convert_xy_number"
    /\ astage = "input"
    /\ outcome' = convert_xy_number(input)
    /\ astage' = "done"
    /\ UNCHANGED <<plc_model, op, input, radix>>
    /\ UNCHANGED <<codecvars, netvars, framervars, servevars, syncvars, zonevars, plcvars, widevars>>

\* read_u16s: self.process_address(addr)?, an error returns from the call
ProcessAddress ==
    /\ op = "read_u16s"
    /\ astage = "input"
    /\ outcome' = process_address(plc_model, input)
    /\ astage' = "processed"
    /\ UNCHANGED <<plc_model, op, input, radix>>
    /\ UNCHANGED <<codecvars, netvars, framervars, servevars, syncvars, zonevars, plcvars, widevars>>

\* read_u16s: Request::ReadU16s(addr, 1) handed to the client and encoded
SendReadU16s ==
    /\ op = "read_u16s"
    /\ astage = "processed"
    /\ outcome.tag = "Ok"
    /\ outcome' = [tag |-> "Called", addr |-> outcome.text,
                   sent |-> EncodeReadU16s(outcome.text, 1)]
    /\ astage' = "done"
    /\ UNCHANGED <<plc_model, op, input, radix>>
    /\ UNCHANGED <<codecvars, netvars, framervars, servevars, syncvars, zonevars, plcvars, widevars>>

AddrNext == ConvertToBase \/ ConvertXY \/ ProcessAddress \/ SendReadU16s

AddrSpec == AddrInit /\ [][AddrNext]_vars

(***************************************************************************)
(* Properties of address parsing and of the Keyence dialect                *)
(***************************************************************************)
\* the value of the digits of s from character i on, counted up to 2^24
\* and no further; -1 when a character is not a digit of the base
RECURSIVE DigitsValue(_, _, _, _)
DigitsValue(s, i, acc, base) ==
    IF i > Len(s) THEN acc
    ELSE IF DigitValue(s[i], base) < 0 THEN -1
    ELSE DigitsValue(s, i + 1,
                     Min(acc * base + DigitValue(s[i], base), 16777216), base)

\* the value a number text denotes in a base: -1 for an empty text or an
\* invalid digit, 2^24 for every value that does not fit 24 bits
TextValue(s, base) == IF s = <<>> THEN -1 ELSE DigitsValue(s, 1, 0, base)

BaseOf(number_base) == IF number_base = "Decimal" THEN 10 ELSE 16

\* C16: number parsing fails on empty text, on a digit that is invalid for
\* the base and on a value that does not fit 24 bits; otherwise it returns
\* the value of the text in the base, hex digits in either case.
C16_NumberParsing ==
    (stage = "address" /\ op = "convert_to_base" /\ astage = "done") =>
        LET v == TextValue(input, BaseOf(radix))
        IN IF v < 0 \/ v >= 16777216 THEN ~outcome.some
           ELSE outcome.some /\ outcome.hi * 65536 + outcome.lo = v

\* the frame of a read_u16s call that was sent
SentFrame == outcome.sent.frames[1]

\* C17: for every address the native split accepts, the prefix is in the
\* device table, the number text parses in the prefix's base and gives the
\* offset of the request; a two-character prefix is taken whole.
C17_SplitThenLookup ==
    (stage = "address" /\ op = "read_u16s" /\ plc_model = "Mitsubishi"
        /\ astage = "done" /\ split_address(input).some) =>
        LET sp == split_address(input)
        IN /\ outcome.sent.tag = "Panic" => outcome.sent.at = "request_command"
           /\ outcome.sent.tag = "Sent" =>
                 /\ Joined(sp.prefix) \in PlcPrefixes
                 /\ FrameCode(SentFrame) = PlcCode(Joined(sp.prefix))
                 /\ FrameAddress(SentFrame) =
                        TextValue(sp.number, BaseOf(PlcBase(Joined(sp.prefix))))
           /\ (Len(input) >= 3
                 /\ <<input[1], input[2]>> \in
                        {<<"S", "M">>, <<"S", "D">>, <<"Z", "R">>, <<"T", "N">>,
                         <<"T", "S">>, <<"C", "N">>, <<"C", "S">>}) =>
                 sp.prefix = <<input[1], input[2]>>

\* C18: every address the Keyence rewrite returns parses as a native
\* address: the native split accepts it, its prefix is in the device table
\* and its number text parses in the prefix's base.
C18_RewrittenAddressParses ==
    (stage = "address" /\ op = "read_u16s" /\ plc_model = "Keyence"
        /\ astage = "done") =>
        /\ split_address(outcome.addr).some
        /\ outcome.sent.tag = "Panic" => outcome.sent.at = "request_command"

\* the length of a repacked Keyence prefix (R, MR, LR) at the head of a
\* text, or 0
RepackPrefixLen(t) ==
    IF Len(t) >= 3 /\ <<t[1], t[2]>> \in {<<"M", "R">>, <<"L", "R">>} THEN 2
    ELSE IF Len(t) >= 2 /\ t[1] = "R" THEN 1
    ELSE 0

\* the keys of the Keyence table
KvKeys ==
    {<<"R">>, <<"M", "R">>, <<"L", "R">>, <<"D", "M">>, <<"F", "M">>,
     <<"B">>, <<"Z", "F">>, <<"M">>, <<"D">>, <<"F">>, <<"L">>, <<"X">>,
     <<"Y">>}

\* C19: for R, MR and LR with the decimal number n = 100 * a + b the
\* rewrite fails with an invalid-address error when b is not below 16 and
\* gives the native offset 16 * a + b otherwise (hex after X for R, decimal
\* after M or L); an address with no prefix of the Keyence table fails.
C19_RepackBounds ==
    (stage = "address" /\ op = "read_u16s" /\ plc_model = "Keyence"
        /\ astage = "processed") =>
        /\ LET k == RepackPrefixLen(input)
               n == TextValue(SubSeq(input, k + 1, Len(input)), 10)
           IN (k > 0 /\ n >= 0 /\ n < 16777216) =>
                 IF n % 100 >= 16
                 THEN outcome = KvErr("AddressInvalid")
                 ELSE /\ outcome.tag = "Ok"
                      /\ outcome.text[1] =
                            (IF k = 1 THEN "X" ELSE input[1])
                      /\ TextValue(Tail(outcome.text),
                                   IF k = 1 THEN 16 ELSE 10)
                            = 16 * (n \div 100) + (n % 100)
        /\ (\A key \in KvKeys :
               ~(Len(input) > Len(key) /\ SubSeq(input, 1, Len(key)) = key))
              => outcome.tag = "Err"

\* the text "R100"
R100 == <<"R", "1", "0", "0">>

\* C20 as stated: on a Keyence context read_u16s("R100", 1) sends device X
\* (0x9C) with head address 0xA0.
C20_R100SendsXA0 ==
    (stage = "address" /\ op = "read_u16s" /\ plc_model = "Keyence"
        /\ input = R100 /\ astage = "done") =>
        /\ outcome.sent.tag = "Sent"
        /\ Len(outcome.sent.frames) = 1
        /\ FrameCode(SentFrame) = 156
        /\ FrameAddress(SentFrame) = 160

\* C20 amended: on a Keyence context read_u16s("R100", 1) sends device X
\* (0x9C) with head address 0x10, the repack 16 * 1 + 0 of 100.
C20_R100SendsX10 ==
    (stage = "address" /\ op = "read_u16s" /\ plc_model = "Keyence"
        /\ input = R100 /\ astage = "done") =>
        /\ outcome.addr = <<"X", "1", "0">>
        /\ outcome.sent.tag = "Sent"
        /\ Len(outcome.sent.frames) = 1
        /\ FrameCode(SentFrame) = 156
        /\ FrameAddress(SentFrame) = 16
        /\ FrameCount(SentFrame) = 1

C20_Witness ==
    /\ stage = "address"
    /\ op = "read_u16s"
    /\ plc_model = "Keyence"
    /\ input = R100
    /\ astage = "done"
    /\ outcome.sent.tag = "Sent"
    /\ FrameAddress(outcome.sent.frames[1]) = 16

\* C21: the X/Y renumbering of a text of two or more characters is the hex
\* text of 16 * (decimal value of all but the last character) + (hex value
\* of the last character); a one-character text gives its hex digit; a text
\* that is not valid under this rule gives an error.
C21_XYRenumber ==
    (stage = "address" /\ op = "convert_xy_number" /\ astage = "done") =>
        LET last == DigitValue(input[Len(input)], 16)
            rest == TextValue(SubSeq(input, 1, Len(input) - 1), 10)
        IN IF Len(input) = 1
           THEN IF last >= 0
                THEN outcome = KvOk(<<HexDigitsUpper[last + 1]>>)
                ELSE outcome.tag = "Err"
           ELSE IF rest < 0 \/ last < 0 THEN outcome.tag = "Err"
           ELSE rest < 1048576 =>
                   outcome = KvOk(FormatU32(U32Of(16 * rest + last), 16))

\* C22: a call with an invalid address (unknown prefix, unparseable number,
\* Keyence low component out of range) returns an address error to the
\* caller and sends nothing, under both dialects: the call either returns
\* the error of the dialect rewrite, or it reaches the encoder with an
\* address that the encoder can parse.
C22_InvalidAddressIsError ==
    (stage = "address" /\ op = "read_u16s") =>
        /\ astage = "processed" => outcome.tag \in {"Ok", "Err"}
        /\ astage = "done" =>
              ~(/\ outcome.sent.tag = "Panic"
                /\ outcome.sent.at \in {"split_address", "find_instruction_code",
                                        "convert_to_base"})

(***************************************************************************)
(* Properties of typed values                                              *)
(***************************************************************************)
\* the words one value of a typed request occupies, by the type's width
WordsOfType(kind) ==
    CASE kind \in {"ReadU16s", "ReadI16s", "WriteU16s", "WriteI16s"} -> 1
      [] kind \in {"ReadU32s", "ReadI32s", "ReadF32s",
                   "WriteU32s", "WriteI32s", "WriteF32s"} -> 2
      [] OTHER -> 4

RECURSIVE SumCounts(_)
\* the points requested by a sequence of frames
SumCounts(fs) ==
    IF fs = <<>> THEN 0
    ELSE SumCounts(SubSeq(fs, 1, Len(fs) - 1)) + FrameCount(fs[Len(fs)])

\* the little-endian bytes of each value, w bytes per value, in order
LeBytesOf(values, w) ==
    [j \in 1..(Len(values) * w) |->
        to_le_bytes(values[((j - 1) \div w) + 1], w)[((j - 1) % w) + 1]]

\* C23: a read of n values requests n, 2n or 4n words by the width of the
\* type; a write of k values sends k, 2k or 4k words whose payload is the
\* little-endian bytes of the values in order; decoding returns exactly n
\* values, each the little-endian reading of its group of 2, 4 or 8 bytes.
C23_TypedValuesAsWords ==
    /\ (stage # "start" /\ request.kind \in WordReadKinds) =>
          SumCounts(frames) = request.quantity * WordsOfType(request.kind)
    /\ (stage # "start" /\ request.kind \in WordWriteKinds) =>
          /\ SumCounts(frames) = Len(request.data) * WordsOfType(request.kind)
          /\ ConcatData(frames) =
                LeBytesOf(request.data, 2 * WordsOfType(request.kind))
    /\ (stage = "decoded" /\ request.kind \in WordReadKinds
            /\ result.tag = "Ok") =>
          /\ Len(result.values) = request.quantity
          /\ LeBytesOf(result.values, 2 * WordsOfType(request.kind)) =
                JoinData(replies)

(***************************************************************************)
(* Server: Server::serve, Server::serve_until and process                  *)
(* (src/src/server/tcp.rs)                                                 *)
(***************************************************************************)
\* connections the listener accepts
MaxConns == 2

\* request frames the peers write, all connections together
MaxRequests == 2

\* EchoService::call: a read of qty returns the bytes 0..qty-1, a write is
\* acknowledged
EchoService(req) ==
    IF req.kind = "ReadU8s"
    THEN [kind |-> "ReadU8s",
          values |-> [i \in 1..req.quantity |-> (i - 1) % 256]]
    ELSE [kind |-> "WriteU8s", values |-> <<>>]

\* Service::call of the service under test: ErrorService fails every
\* request, EchoService none
ServiceCall(svc, req) ==
    IF svc = "ErrorService" THEN [tag |-> "Err"]
    ELSE [tag |-> "Ok", response |-> EchoService(req)]

\* process, Err arm of the service result: let error_response =
\* Response::WriteU8s()
ErrorResponse == [kind |-> "WriteU8s", values |-> <<>>]

\* process: the response that is sent for a service result
ResponseFor(res) == IF res.tag = "Ok" THEN res.response ELSE ErrorResponse

\* a framed.next that takes the newest frame of the stream
TakeNewestFrame(inbox) ==
    [frame |-> inbox[Len(inbox)], rest |-> SubSeq(inbox, 1, Len(inbox) - 1)]

\* framed.next: the oldest frame of the stream, and what stays behind
TakeFrame(inbox) == [frame |-> Head(inbox), rest |-> Tail(inbox)]

\* a serve loop that gives up listening when a connection is rejected
ServeAfterStrict(verdict) ==
    IF verdict \in {"Err", "None"} THEN "failed" ELSE "accepting"

\* Server::serve: on_connected(stream, socket_addr).await? returns from
\* serve with the error, Ok(None) continues the loop, Ok(Some) spawns
ServeAfter(verdict) == IF verdict = "Err" THEN "failed" ELSE "accepting"

\* the request frames the peers write: a read of 2 at D0, a write of one
\* word at D0, and a frame with an unknown command
ReadRequest(number, qty) ==
    [kind |-> "ReadU16s", address |-> [prefix |-> "D", number |-> number],
     quantity |-> qty]

WriteRequest ==
    [kind |-> "WriteU16s", address |-> [prefix |-> "D", number |-> 0],
     data |-> <<48042>>]

ReadFrame(number, qty) == ClientCodecEncode(Encode(ReadRequest(number, qty)))

WriteFrame == ClientCodecEncode(Encode(WriteRequest))

UnknownCommandFrame == [ReadFrame(0, 2) EXCEPT ![12] = 9]

PeerFrames == {ReadFrame(0, 2), WriteFrame, UnknownCommandFrame}

\* the request a frame carries: McServerDecoder, then ServerDecoder::decode
FrameRequest(frame) ==
    LET item == McServerDecoder(frame)
    IN IF item.tag # "Some" THEN [kind |-> "Err"]
       ELSE ServerDecode(item.payload)

\* a connection the listener has accepted, before on_connected returns
\* (mark: the number of responses written when the abort signal fired)
NewConn ==
    [verdict |-> "pending", tasks |-> 0, task |-> "none", peer |-> "open",
     sent |-> <<>>, inbox |-> <<>>, cur |-> <<>>, called |-> <<>>,
     out |-> <<>>, excs |-> <<>>, mark |-> 0]

ServeInit ==
    /\ entry \in {"serve", "serve_until"}
    /\ service \in {"EchoService", "ErrorService"}
    /\ listener = "accepting"
    /\ conns = <<>>
    /\ request = [kind |-> "None"]
    /\ frames = <<>>
    /\ replies = <<>>
    /\ result = [tag |-> "None"]
    /\ stage = "server"
    /\ script = <<>>
    /\ pc = "idle"
    /\ results = <<>>
    /\ written = 0
    /\ received = 0
    /\ rbuf = <<>>
    /\ c2s = <<>>
    /\ s2c = <<>>
    /\ sbuf = <<>>
    /\ srv = "serving"
    /\ mem = <<>>
    /\ FramerIdle
    /\ AddrIdle
    /\ WideIdle
    /\ PlcIdle
    /\ ZoneIdle
    /\ SyncIdle

\* Server::serve: listener.accept().await returns a stream
Accept ==
    /\ listener = "accepting"
    /\ Len(conns) < MaxConns
    /\ \A c \in 1..Len(conns) : conns[c].verdict # "pending"
    /\ conns' = Append(conns, NewConn)
    /\ UNCHANGED <<entry, service, listener>>
    /\ UNCHANGED <<codecvars, netvars, framervars, addrvars, syncvars, zonevars, plcvars, widevars>>

\* Server::serve: listener.accept().await? fails and serve returns the
\* error
AcceptFails ==
    /\ listener = "accepting"
    /\ Len(conns) < MaxConns
    /\ \A c \in 1..Len(conns) : conns[c].verdict # "pending"
    /\ conns' = Append(conns, [NewConn EXCEPT !.verdict = "AcceptErr",
                                              !.peer = "closed"])
    /\ listener' = "failed"
    /\ UNCHANGED <<entry, service>>
    /\ UNCHANGED <<codecvars, netvars, framervars, addrvars, syncvars, zonevars, plcvars, widevars>>

\* Server::serve: on_connected returns for the accepted stream; Ok(None)
\* drops the stream and continues, Err returns from serve, Ok(Some) wraps
\* the stream in a Framed and spawns one process task
OnConnected ==
    /\ listener = "accepting"
    /\ conns # <<>>
    /\ conns[Len(conns)].verdict = "pending"
    /\ \E verdict \in {"Some", "None", "Err"} :
          /\ conns' = [conns EXCEPT ![Len(conns)] =
                [@ EXCEPT !.verdict = verdict,
                          !.tasks = IF verdict = "Some" THEN 1 ELSE 0,
                          !.task = IF verdict = "Some" THEN "running"
                                   ELSE "none"]]
          /\ listener' = ServeAfter(verdict)
    /\ UNCHANGED <<entry, service>>
    /\ UNCHANGED <<codecvars, netvars, framervars, addrvars, syncvars, zonevars, plcvars, widevars>>

\* Server::serve_until: the abort signal completes first in select!, the
\* serve future is dropped (with a stream it has not handed on) and
\* Terminated::Aborted is returned; spawned tasks are not touched
Abort ==
    /\ entry = "serve_until"
    /\ listener = "accepting"
    /\ listener' = "aborted"
    /\ conns' = [c \in 1..Len(conns) |->
                    IF conns[c].verdict = "pending"
                    THEN [conns[c] EXCEPT !.verdict = "Dropped"]
                    ELSE [conns[c] EXCEPT !.mark = Len(conns[c].out)]]
    /\ UNCHANGED <<entry, service>>
    /\ UNCHANGED <<codecvars, netvars, framervars, addrvars, syncvars, zonevars, plcvars, widevars>>

\* the number of request frames written on the first n connections
RECURSIVE FramesSent(_)
FramesSent(n) ==
    IF n = 0 THEN 0 ELSE Len(conns[n].sent) + FramesSent(n - 1)

\* the peer of a connection writes one request frame
PeerSend ==
    /\ \E c \in 1..Len(conns), f \in PeerFrames :
          /\ conns[c].verdict = "Some"
          /\ conns[c].peer = "open"
          /\ FramesSent(Len(conns)) < MaxRequests
          /\ conns' = [conns EXCEPT ![c].sent = Append(@, f),
                                    ![c].inbox = Append(@, f)]
    /\ UNCHANGED <<entry, service, listener>>
    /\ UNCHANGED <<codecvars, netvars, framervars, addrvars, syncvars, zonevars, plcvars, widevars>>

\* the peer of a connection shuts its side down
PeerClose ==
    /\ \E c \in 1..Len(conns) :
          /\ conns[c].verdict = "Some"
          /\ conns[c].peer = "open"
          /\ conns' = [conns EXCEPT ![c].peer = "closed"]
    /\ UNCHANGED <<entry, service, listener>>
    /\ UNCHANGED <<codecvars, netvars, framervars, addrvars, syncvars, zonevars, plcvars, widevars>>

\* process: framed.next().await; None (the peer has closed) ends the task
\* with Ok, a frame that does not decode ends it with Err, a request is
\* handed to service.call
ProcessNext ==
    /\ \E c \in 1..Len(conns) :
          /\ conns[c].task = "running"
          /\ conns[c].cur = <<>>
          /\ IF conns[c].inbox = <<>>
             THEN /\ conns[c].peer = "closed"
                  /\ conns' = [conns EXCEPT ![c].task = "ok"]
             ELSE LET next == TakeFrame(conns[c].inbox)
                  IN IF FrameRequest(next.frame).kind = "Err"
                     THEN conns' = [conns EXCEPT ![c].task = "err",
                                                 ![c].inbox = next.rest]
                     ELSE conns' = [conns EXCEPT
                                       ![c].cur = next.frame,
                                       ![c].inbox = next.rest,
                                       ![c].called = Append(@, next.frame)]
    /\ UNCHANGED <<entry, service, listener>>
    /\ UNCHANGED <<codecvars, netvars, framervars, addrvars, syncvars, zonevars, plcvars, widevars>>

\* process: the service's future completes and framed.send writes the
\* response, or the error response when the service failed
ProcessRespond ==
    /\ \E c \in 1..Len(conns) :
          /\ conns[c].task = "running"
          /\ conns[c].cur # <<>>
          /\ LET res == ServiceCall(service, FrameRequest(conns[c].cur))
             IN conns' = [conns EXCEPT
                   ![c].out = Append(@, ServerCodecEncode(ResponseFor(res))),
                   ![c].excs = Append(@, res.tag = "Err"),
                   ![c].cur = <<>>]
    /\ UNCHANGED <<entry, service, listener>>
    /\ UNCHANGED <<codecvars, netvars, framervars, addrvars, syncvars, zonevars, plcvars, widevars>>

ServeNext ==
    \/ Accept
    \/ AcceptFails
    \/ OnConnected
    \/ Abort
    \/ PeerSend
    \/ PeerClose
    \/ ProcessNext
    \/ ProcessRespond

ServeSpec == ServeInit /\ [][ServeNext]_vars

(***************************************************************************)
(* Properties of the server                                                *)
(***************************************************************************)
\* the request of the client that wrote a frame
RequestOfFrame(frame) ==
    IF frame = WriteFrame THEN WriteRequest ELSE ReadRequest(0, 2)

\* what the client that wrote the request frame makes of a reply: the
\* framer takes the payload, the decoder checks the end code and reads
\* the data
ClientView(frame, reply) ==
    LET item == McClientDecoder(reply)
    IN IF item.tag # "Some" THEN [tag |-> "Err", error |-> "InvalidData"]
       ELSE Decode(<<item.payload>>, RequestOfFrame(frame))

\* the connections a process task serves or served
Served == {c \in 1..Len(conns) : conns[c].verdict = "Some"}

\* C24: a request the service fails is answered with a response the
\* client does not take for a success, the task goes on with the next
\* request (it ends with an error only on a frame that does not decode),
\* and it ends with Ok once the peer has closed and every request has been
\* answered.
C24_ExceptionResponse ==
    stage = "server" =>
        \A c \in Served :
            /\ \A k \in 1..Len(conns[c].out) :
                  conns[c].excs[k] =>
                      ClientView(conns[c].called[k], conns[c].out[k]).tag # "Ok"
            /\ conns[c].task = "err" =>
                  \E k \in 1..Len(conns[c].sent) :
                      FrameRequest(conns[c].sent[k]).kind = "Err"
            /\ conns[c].task = "ok" =>
                  /\ conns[c].peer = "closed"
                  /\ Len(conns[c].out) = Len(conns[c].sent)

\* C25: after the abort signal of serve_until no further connection is
\* accepted, and every accepted connection serves at most the request it
\* was processing when the signal fired: it takes up no request beyond
\* the one that follows the responses written by then.
C25_GracefulShutdown ==
    [][(stage = "server" /\ listener = "aborted") =>
          /\ Len(conns') = Len(conns)
          /\ \A c \in Served :
                Len(conns'[c].called) <= conns[c].mark + 1]_vars

\* C26: when on_connected returns Ok(None) no processing task is started
\* for the connection and the server goes on accepting; when it returns
\* Err no task is started, listening stops and serve has returned the
\* error; when it returns Ok(Some) exactly one processing task is started
\* for the connection.
C26_OnConnectedOutcomes ==
    stage = "server" =>
        \A c \in 1..Len(conns) :
            /\ conns[c].verdict = "None" =>
                  /\ conns[c].tasks = 0
                  /\ conns[c].task = "none"
                  /\ c = Len(conns) => listener \in {"accepting", "aborted"}
            /\ conns[c].verdict = "Err" =>
                  /\ conns[c].tasks = 0
                  /\ conns[c].task = "none"
                  /\ listener = "failed"
                  /\ c = Len(conns)
            /\ conns[c].verdict = "Some" =>
                  /\ conns[c].tasks = 1
                  /\ conns[c].task # "none"

\* a connection was accepted and given its one task after an earlier one
\* had been rejected
C26_Witness ==
    /\ stage = "server"
    /\ Len(conns) = 2
    /\ conns[1].verdict = "None"
    /\ conns[2].verdict = "Some"
    /\ conns[2].tasks = 1
    /\ conns[2].out # <<>>

\* on_connected failed for the second connection and serve returned
C26_WitnessErr ==
    /\ stage = "server"
    /\ Len(conns) = 2
    /\ conns[1].verdict = "Some"
    /\ conns[2].verdict = "Err"
    /\ listener = "failed"

\* C27: on one connection the requests are handled one at a time and in
\* arrival order: the service is called with the k-th frame the peer
\* wrote, at most one call is without its response, and the k-th response
\* on the stream is the one for the k-th request.
C27_ResponsesInRequestOrder ==
    stage = "server" =>
        \A c \in Served :
            /\ Len(conns[c].called) <= Len(conns[c].sent)
            /\ \A k \in 1..Len(conns[c].called) :
                  conns[c].called[k] = conns[c].sent[k]
            /\ Len(conns[c].out) <= Len(conns[c].called)
            /\ Len(conns[c].called) <= Len(conns[c].out) + 1
            /\ (conns[c].cur # <<>>) <=>
                   (Len(conns[c].called) = Len(conns[c].out) + 1)
            /\ \A k \in 1..Len(conns[c].out) :
                  conns[c].out[k] =
                      ServerCodecEncode(ResponseFor(
                          ServiceCall(service, FrameRequest(conns[c].sent[k]))))

\* on one connection the first of two different requests has been
\* answered and the second is with the service
C27_Witness ==
    /\ stage = "server"
    /\ service = "EchoService"
    /\ \E c \in Served :
          /\ Len(conns[c].out) = 1
          /\ conns[c].cur # <<>>
          /\ conns[c].sent[1] # conns[c].sent[2]
          /\ conns[c].called = conns[c].sent
          /\ conns[c].out[1] # ServerCodecEncode(ResponseFor(
                 ServiceCall(service, FrameRequest(conns[c].sent[2]))))

(***************************************************************************)
(* Synchronous client: connect, connect_with_timeout and the blocking     *)
(* calls of Context (src/src/client/sync/mod.rs, src/src/client/sync/     *)
(* tcp.rs)                                                                 *)
(***************************************************************************)
\* the longest timeout, in clock ticks
MaxTimeout == 2

\* the clock is followed this far into one blocking call
MaxTime == MaxTimeout + 1

\* Option<Duration>
NoDuration == [some |-> FALSE, ticks |-> 0]

SomeDuration(d) == [some |-> TRUE, ticks |-> d]

\* a future that has not completed
Pending == [tag |-> "Pending", values |-> <<>>, error |-> "none"]

\* Ok(value) of a completed future
OkOf(values) == [tag |-> "Ok", values |-> values, error |-> "none"]

\* Err(Error::Transport(io::Error)) of a completed future
TransportError(error_kind) ==
    [tag |-> "Err", values |-> <<>>, error |-> error_kind]

\* a blocking call that awaits the task without a deadline
block_on_without_timeout(duration, value, elapsed) == value

\* block_on_with_timeout: what the blocked thread gets when the task is
\* polled `elapsed` ticks after the start. With Some(duration) the task
\* is wrapped in tokio::time::timeout, which polls the task first and the
\* deadline second, and Elapsed becomes a TimedOut io::Error; with None
\* the task is awaited as it is.
block_on_with_timeout(duration, value, elapsed) ==
    IF duration.some
    THEN IF value.tag # "Pending" THEN value
         ELSE IF elapsed >= duration.ticks THEN TransportError("TimedOut")
         ELSE Pending
    ELSE value

\* connect / connect_with_timeout: the operation timeout of the context,
\* Some(1 s) for connect
SyncInit ==
    /\ sync = "connecting"
    /\ \/ /\ connect_timeout = NoDuration
          /\ timeout = SomeDuration(1)
       \/ /\ \E d \in 1..MaxTimeout : connect_timeout = SomeDuration(d)
          /\ \/ timeout = NoDuration
             \/ \E d \in 0..MaxTimeout : timeout = SomeDuration(d)
    /\ now = 0
    /\ inner = Pending
    /\ returns = <<>>
    /\ request = [kind |-> "None"]
    /\ frames = <<>>
    /\ replies = <<>>
    /\ result = [tag |-> "None"]
    /\ stage = "sync"
    /\ script = <<>>
    /\ pc = "idle"
    /\ results = <<>>
    /\ written = 0
    /\ received = 0
    /\ rbuf = <<>>
    /\ c2s = <<>>
    /\ s2c = <<>>
    /\ sbuf = <<>>
    /\ srv = "serving"
    /\ mem = <<>>
    /\ FramerIdle
    /\ AddrIdle
    /\ WideIdle
    /\ PlcIdle
    /\ ZoneIdle
    /\ ServeIdle

\* what the blocked thread gets from a poll now
SyncPoll ==
    IF sync = "connecting"
    THEN block_on_with_timeout(connect_timeout, inner, now)
    ELSE block_on_with_timeout(timeout, inner, now)

\* the values a response carries
SyncValues == {<<1>>, <<2, 3>>}

\* one clock tick passes while the thread is blocked and nothing has
\* woken the task
SyncTick ==
    /\ sync \in {"connecting", "calling"}
    /\ SyncPoll.tag = "Pending"
    /\ now < MaxTime
    /\ now' = now + 1
    /\ UNCHANGED <<sync, connect_timeout, timeout, inner, returns>>
    /\ UNCHANGED <<codecvars, netvars, framervars, addrvars, servevars, zonevars, plcvars, widevars>>

\* the awaited future completes: the connection is established or the
\* response has been received and decoded
SyncCompletes ==
    /\ sync \in {"connecting", "calling"}
    /\ inner = Pending
    /\ \E values \in SyncValues :
          inner' = OkOf(IF sync = "connecting" THEN <<>> ELSE values)
    /\ UNCHANGED <<sync, connect_timeout, timeout, now, returns>>
    /\ UNCHANGED <<codecvars, netvars, framervars, addrvars, servevars, zonevars, plcvars, widevars>>

\* the awaited future fails with a transport error
SyncFails ==
    /\ sync \in {"connecting", "calling"}
    /\ inner = Pending
    /\ inner' = TransportError("ConnectionReset")
    /\ UNCHANGED <<sync, connect_timeout, timeout, now, returns>>
    /\ UNCHANGED <<codecvars, netvars, framervars, addrvars, servevars, zonevars, plcvars, widevars>>

\* connect_with_timeout: runtime.block_on returns; an error is returned
\* to the caller, a stream becomes the context with its operation timeout
SyncConnected ==
    /\ sync = "connecting"
    /\ SyncPoll.tag # "Pending"
    /\ sync' = IF SyncPoll.tag = "Ok" THEN "ready" ELSE "failed"
    /\ inner' = Pending
    /\ now' = 0
    /\ UNCHANGED <<connect_timeout, timeout, returns>>
    /\ UNCHANGED <<codecvars, netvars, framervars, addrvars, servevars, zonevars, plcvars, widevars>>

\* Context::call and the Reader / Writer methods: the async call is
\* handed to block_on_with_timeout with the context's timeout
SyncCall ==
    /\ sync = "ready"
    /\ Len(returns) < MaxCalls
    /\ sync' = "calling"
    /\ inner' = Pending
    /\ now' = 0
    /\ UNCHANGED <<connect_timeout, timeout, returns>>
    /\ UNCHANGED <<codecvars, netvars, framervars, addrvars, servevars, zonevars, plcvars, widevars>>

\* block_on_with_timeout returns to the caller; the task is dropped
SyncReturn ==
    /\ sync = "calling"
    /\ SyncPoll.tag # "Pending"
    /\ returns' = Append(returns, SyncPoll)
    /\ sync' = "ready"
    /\ inner' = Pending
    /\ now' = 0
    /\ UNCHANGED <<connect_timeout, timeout>>
    /\ UNCHANGED <<codecvars, netvars, framervars, addrvars, servevars, zonevars, plcvars, widevars>>

SyncNext ==
    \/ SyncTick
    \/ SyncCompletes
    \/ SyncFails
    \/ SyncConnected
    \/ SyncCall
    \/ SyncReturn

SyncSpec == SyncInit /\ [][SyncNext]_vars

\* runtime.block_on drives the task on the calling thread: the clock
\* goes on and a task that can make progress is polled
SyncFairSpec ==
    /\ SyncSpec
    /\ WF_vars(SyncTick)
    /\ WF_vars(SyncConnected)
    /\ WF_vars(SyncReturn)

(***************************************************************************)
(* Properties of the synchronous client                                    *)
(***************************************************************************)
\* C28: with an operation timeout d a blocked call does not wait beyond d
\* and returns; a call that returns without its future having completed
\* returns at d the timed-out transport error and no payload; with no
\* operation timeout a call returns only what its future produced, a
\* response or a transport error.
C28_OperationTimeout ==
    /\ []((sync = "calling" /\ timeout.some) => now <= timeout.ticks)
    /\ [][(sync = "calling" /\ sync' = "ready") =>
             LET ret == returns'[Len(returns')]
             IN IF inner # Pending THEN ret = inner
                ELSE /\ timeout.some
                     /\ now = timeout.ticks
                     /\ ret = TransportError("TimedOut")]_vars
    /\ (sync = "calling" /\ timeout.some) ~> (sync # "calling")

\* a call on a context with an operation timeout of at least one tick has
\* returned the timed-out error, and a later call a response
C28_Witness ==
    /\ stage = "sync"
    /\ timeout.some
    /\ timeout.ticks >= 1
    /\ Len(returns) = 2
    /\ returns[1] = TransportError("TimedOut")
    /\ returns[2].tag = "Ok"

(***************************************************************************)
(* Connections sharing the test server: MitsubishiMcTestServer::call run   *)
(* by several connection tasks (src/examples/mitsubishi-mc-test-server.rs) *)
(***************************************************************************)
\* the connections that share the server
ZoneConns == 2

\* Request::WriteU8s(addr, values), Request::ReadBits(addr, bit_count),
\* Request::ReadU8s(addr, word_count) and Request::WriteBits(addr, bits)
\* (bits as 0 / 1) in one shape
ZWriteU8s(prefix, number, values) ==
    [kind |-> "WriteU8s", address |-> [prefix |-> prefix, number |-> number],
     quantity |-> Len(values) \div 2, data |-> values]

ZReadBits(prefix, number, bit_count) ==
    [kind |-> "ReadBits", address |-> [prefix |-> prefix, number |-> number],
     quantity |-> bit_count, data |-> <<>>]

ZReadU8s(prefix, number, word_count) ==
    [kind |-> "ReadU8s", address |-> [prefix |-> prefix, number |-> number],
     quantity |-> word_count, data |-> <<>>]

ZWriteBits(prefix, number, bits) ==
    [kind |-> "WriteBits", address |-> [prefix |-> prefix, number |-> number],
     quantity |-> Len(bits), data |-> bits]

\* the request as call receives it: the bits of a bit write as booleans
ServiceRequest(r) ==
    IF r.kind = "WriteBits"
    THEN [kind |-> "WriteBits", address |-> r.address,
          data |-> [k \in 1..Len(r.data) |-> r.data[k] = 1]]
    ELSE r

\* what the connections ask of the server: -1 to L100 and 16 bits back,
\* 0x1234 to X0 and 16 bits back, two words to X0 and 32 bits back, three
\* bits to X4, a read of 32 bits at X0, a word to D0 and one to L100, a
\* word read of X0 and a word written at the end of zone M
ZoneScripts ==
    {<<ZWriteU8s("L", 100, <<255, 255>>), ZReadBits("L", 100, 16)>>,
     <<ZWriteU8s("X", 0, <<52, 18>>), ZReadBits("X", 0, 16)>>,
     <<ZWriteU8s("X", 0, <<255, 255, 255, 0>>), ZReadBits("X", 0, 32)>>,
     <<ZWriteBits("X", 4, <<1, 0, 1>>)>>,
     <<ZReadBits("X", 0, 32)>>,
     <<ZWriteU8s("D", 0, <<1, 2>>), ZWriteU8s("L", 100, <<0, 0>>)>>,
     <<ZWriteU8s("M", ZONE_BITS - 16, <<1, 128>>),
       ZReadBits("M", ZONE_BITS - 16, 16), ZReadU8s("X", 0, 1)>>}

\* the address i places on
Shift(address, i) == [address EXCEPT !.number = @ + i]

\* the passes of the loop of an arm of call: one per word of a word write
\* to a bit zone, one per bit of a bit read or bit write of a bit zone,
\* one for a slice copy or a word read
ZoneSteps(r) ==
    CASE r.kind = "WriteU8s" /\ ZoneOf(r.address) \in BitZones ->
            Len(r.data) \div 2
      [] r.kind \in {"ReadBits", "WriteBits"}
            /\ ZoneOf(r.address) \in BitZones -> r.quantity
      [] OTHER -> 1

\* pass i of the loop of a write arm: the zones after it
ZoneWriteStep(zones, r, i) ==
    CASE r.kind = "WriteU8s" /\ ZoneOf(r.address) \in BitZones ->
            ServeWriteU8s(zones, Shift(r.address, 16 * i),
                          SubSeq(r.data, 2 * i + 1, 2 * i + 2))
      [] r.kind = "WriteBits" /\ ZoneOf(r.address) \in BitZones ->
            ServeWriteBits(zones, Shift(r.address, i),
                           <<ServiceRequest(r).data[i + 1]>>)
      [] r.kind \in {"WriteU8s", "WriteBits"} ->
            ServiceZones(zones, ServiceRequest(r))
      [] OTHER -> zones

\* pass i of the loop of a read arm: what it adds to the result
ZoneReadStep(zones, r, i) ==
    CASE r.kind = "ReadBits" /\ ZoneOf(r.address) \in BitZones ->
            ServeReadBits(zones, Shift(r.address, i), 1)
      [] r.kind \in {"ReadBits", "ReadU8s"} ->
            ServiceResponse(zones, r).values
      [] OTHER -> <<>>

\* a Mutex that is handed out while it is held
MutexNeverHeld(held, z) == TRUE

\* Mutex::lock returns once no other thread holds the guard
MutexFree(held, z) == held[z] = 0

\* a connection task outside call
IdleThread == [pos |-> 1, phase |-> "idle", i |-> 0, acc |-> <<>>]

ZoneInit ==
    /\ zscripts \in [1..ZoneConns -> ZoneScripts]
    /\ threads = [c \in 1..ZoneConns |-> IdleThread]
    /\ locks = [z \in {"D"} \cup BitZones |-> 0]
    /\ journal = <<>>
    /\ mem = NewZones
    /\ request = [kind |-> "None"]
    /\ frames = <<>>
    /\ replies = <<>>
    /\ result = [tag |-> "None"]
    /\ stage = "zones"
    /\ script = <<>>
    /\ pc = "idle"
    /\ results = <<>>
    /\ written = 0
    /\ received = 0
    /\ rbuf = <<>>
    /\ c2s = <<>>
    /\ s2c = <<>>
    /\ sbuf = <<>>
    /\ srv = "serving"
    /\ FramerIdle
    /\ AddrIdle
    /\ WideIdle
    /\ PlcIdle
    /\ ServeIdle
    /\ SyncIdle

\* the request connection c has in call
ZoneRequest(c) == zscripts[c][threads[c].pos]

\* call: zone_data.lock().unwrap() of the arm of the request's zone
ZoneLock ==
    /\ \E c \in 1..ZoneConns :
          /\ threads[c].phase = "idle"
          /\ threads[c].pos <= Len(zscripts[c])
          /\ MutexFree(locks, ZoneOf(ZoneRequest(c).address))
          /\ locks' = [locks EXCEPT ![ZoneOf(ZoneRequest(c).address)] = c]
          /\ threads' = [threads EXCEPT ![c].phase = "held"]
    /\ UNCHANGED <<zscripts, journal, mem>>
    /\ UNCHANGED <<script, pc, results, written, received, rbuf, c2s, s2c,
                   sbuf, srv>>
    /\ UNCHANGED <<codecvars, framervars, addrvars, servevars, syncvars, plcvars, widevars>>

\* call: one pass of the loop of the arm, under the guard
ZoneStep ==
    /\ \E c \in 1..ZoneConns :
          /\ threads[c].phase = "held"
          /\ threads[c].i < ZoneSteps(ZoneRequest(c))
          /\ mem' = ZoneWriteStep(mem, ZoneRequest(c), threads[c].i)
          /\ threads' = [threads EXCEPT
                ![c].i = @ + 1,
                ![c].acc = @ \o ZoneReadStep(mem, ZoneRequest(c),
                                             threads[c].i)]
    /\ UNCHANGED <<zscripts, locks, journal>>
    /\ UNCHANGED <<script, pc, results, written, received, rbuf, c2s, s2c,
                   sbuf, srv>>
    /\ UNCHANGED <<codecvars, framervars, addrvars, servevars, syncvars, plcvars, widevars>>

\* call: the arm ends, the guard is dropped and future::ready(res) is
\* returned
ZoneReturn ==
    /\ \E c \in 1..ZoneConns :
          /\ threads[c].phase = "held"
          /\ threads[c].i = ZoneSteps(ZoneRequest(c))
          /\ locks' = [locks EXCEPT ![ZoneOf(ZoneRequest(c).address)] = 0]
          /\ journal' = Append(journal, [conn |-> c, req |-> ZoneRequest(c),
                                         resp |-> threads[c].acc])
          /\ threads' = [threads EXCEPT ![c] =
                [pos |-> threads[c].pos + 1, phase |-> "idle", i |-> 0,
                 acc |-> <<>>]]
    /\ UNCHANGED <<zscripts, mem>>
    /\ UNCHANGED <<script, pc, results, written, received, rbuf, c2s, s2c,
                   sbuf, srv>>
    /\ UNCHANGED <<codecvars, framervars, addrvars, servevars, syncvars, plcvars, widevars>>

ZoneNext == ZoneLock \/ ZoneStep \/ ZoneReturn

ZoneSpec == ZoneInit /\ [][ZoneNext]_vars

(***************************************************************************)
(* Properties of the shared test server                                    *)
(***************************************************************************)
\* the bits [first, first + count) of a bit zone a finished write covers
ZWrites(r, z, first, count) ==
    /\ r.kind \in {"WriteU8s", "WriteBits"}
    /\ ZoneOf(r.address) = z
    /\ LET len == IF r.kind = "WriteU8s" THEN 16 * (Len(r.data) \div 2)
                  ELSE Len(r.data)
       IN /\ r.address.number < first + count
          /\ first < r.address.number + len

\* word j of the bytes of a word write
ZWord(values, j) == values[2 * j + 1] + 256 * values[2 * j + 2]

\* C29: on a bit zone, after a word write of n words at an in-range
\* address a and no later write to these bits, a bit read of 16 * n bits
\* at a returns at position 16 * j + i bit i of word j, bit 0 being the
\* least significant.
C29_WordWriteBitRead ==
    stage = "zones" =>
        \A p \in 1..Len(journal), q \in 1..Len(journal) :
            LET w == journal[p].req
                r == journal[q].req
                n == Len(w.data) \div 2
            IN (/\ p < q
                /\ w.kind = "WriteU8s"
                /\ ZoneOf(w.address) \in BitZones
                /\ w.address.number + 16 * n <= ZONE_BITS
                /\ r.kind = "ReadBits"
                /\ r.address = w.address
                /\ r.quantity = 16 * n
                /\ \A m \in (p + 1)..(q - 1) :
                      ~ZWrites(journal[m].req, ZoneOf(w.address),
                               w.address.number, 16 * n))
               => /\ Len(journal[q].resp) = 16 * n
                  /\ \A j \in 0..(n - 1), i \in 0..15 :
                        journal[q].resp[16 * j + i + 1]
                            = ((ZWord(w.data, j) \div (2 ^ i)) % 2 = 1)

\* 0x1234 was written to X0 and the 16 bits read back next are
\* 0010 1100 0100 1000; -1 was written to L100 and 16 true were read back
C29_Witness ==
    /\ stage = "zones"
    /\ \E p \in 1..Len(journal) :
          /\ p < Len(journal)
          /\ journal[p].req = ZWriteU8s("X", 0, <<52, 18>>)
          /\ journal[p + 1].req = ZReadBits("X", 0, 16)
          /\ journal[p + 1].resp =
                <<FALSE, FALSE, TRUE, FALSE, TRUE, TRUE, FALSE, FALSE,
                  FALSE, TRUE, FALSE, FALSE, TRUE, FALSE, FALSE, FALSE>>
    /\ \E p \in 1..Len(journal) :
          /\ p < Len(journal)
          /\ journal[p].req = ZWriteU8s("L", 100, <<255, 255>>)
          /\ journal[p + 1].req = ZReadBits("L", 100, 16)
          /\ journal[p + 1].resp = [k \in 1..16 |-> TRUE]

\* the zone connection c has locked
ZoneHeld(c) == ZoneOf(ZoneRequest(c).address)

\* C30: with several connections on one server the accesses to a zone
\* are serialized and every request takes effect as a whole: no two
\* connections are inside a call on the same zone, so no read runs while
\* a write to its zone is partly applied; a read that has come to its
\* end holds what one read of the zone as it stands returns; a write that
\* has come to its end is in the zone as a whole; and no finished read of
\* 32 bits at X0 holds bit 0 of the two-word write (the only request that
\* sets it) without its bit 16.
C30_RequestsAreAtomic ==
    stage = "zones" =>
        \A c \in 1..ZoneConns :
            threads[c].phase = "held" =>
                /\ \A d \in 1..ZoneConns :
                      (d # c /\ threads[d].phase = "held") =>
                          ZoneHeld(d) # ZoneHeld(c)
                /\ threads[c].i = ZoneSteps(ZoneRequest(c)) =>
                      IF ZoneRequest(c).kind \in {"ReadBits", "ReadU8s"}
                      THEN threads[c].acc =
                               ServiceResponse(mem, ZoneRequest(c)).values
                      ELSE ServiceZones(mem, ServiceRequest(ZoneRequest(c)))
                               = mem
        /\ \A q \in 1..Len(journal) :
              journal[q].req = ZReadBits("X", 0, 32) =>
                  (journal[q].resp[1] => journal[q].resp[17])

\* a read of 32 bits of zone X by one connection returned between the
\* two-word write to X and the bit write to X of the other, and saw the
\* whole of the first
C30_Witness ==
    /\ stage = "zones"
    /\ Len(journal) >= 2
    /\ journal[1].req = ZWriteU8s("X", 0, <<255, 255, 255, 0>>)
    /\ journal[2].req = ZReadBits("X", 0, 32)
    /\ journal[2].conn # journal[1].conn
    /\ journal[2].resp = [k \in 1..32 |-> k <= 24]

(***************************************************************************)
(* PLC session specification: a client context calls over one connection   *)
(* to a PLC that answers every request frame it receives with one response *)
(* frame, in order (src/src/client/tcp.rs)                                 *)
(***************************************************************************)
\* word counts of the calls of a PLC session: none, one frame, two frames
PlcWordSizes == {0, 2, LIMIT + 1}

\* the requests the client program of a PLC session hands to call, all at D0
PlcCalls ==
    {[kind |-> "ReadU16s", address |-> [prefix |-> "D", number |-> 0],
      quantity |-> n] : n \in PlcWordSizes}
    \cup {[kind |-> "WriteU16s", address |-> [prefix |-> "D", number |-> 0],
           data |-> [j \in 1..n |-> PatternValue("WriteU16s", 1, j)]] :
             n \in PlcWordSizes}

\* the end-codes the PLC answers with: success and 0xC051
PlcEndCodes == {0, 49233}

\* the word the PLC holds in device number a
PlcWord(a) == (a * 7 + 3) % 65536

\* the response frame of the PLC to one request frame: header with the
\* data length, the end-code, and the words read when a read succeeds
PlcResponse(frame, code) ==
    LET data == IF code = 0 /\ FrameFunction(frame) = <<1, 4, 0, 0>>
                THEN [j \in 1..(2 * FrameCount(frame)) |->
                        ByteOf(PlcWord(FrameAddress(frame) + ((j - 1) \div 2)),
                               (j - 1) % 2)]
                ELSE <<>>
        length == Len(data) + 2
    IN response_prefix \o <<length % 256, length \div 256>>
       \o <<code % 256, code \div 256>> \o data

PlcInit ==
    /\ script \in [1..MaxCalls -> PlcCalls]
    /\ request = [kind |-> "None"]
    /\ frames = <<>>
    /\ replies = <<>>
    /\ result = [tag |-> "None"]
    /\ stage = "plc"
    /\ pc = "idle"
    /\ results = <<>>
    /\ written = 0
    /\ received = 0
    /\ rbuf = <<>>
    /\ c2s = <<>>
    /\ s2c = <<>>
    /\ sbuf = <<>>
    /\ srv = "serving"
    /\ mem = <<>>
    /\ sentby = <<>>
    /\ answered = 0
    /\ origins = <<>>
    /\ inbuf = <<>>
    /\ took = <<>>
    /\ endcodes = <<>>
    /\ FramerIdle
    /\ AddrIdle
    /\ WideIdle
    /\ ServeIdle
    /\ SyncIdle
    /\ ZoneIdle

\* TcpClient::call up to the end of framed.send: the read buffer is
\* cleared, the request is encoded and every frame is flushed to the socket
PlcSend ==
    /\ pc \in {"idle", "errored"}
    /\ Len(results) < Len(script)
    /\ LET req == script[Len(results) + 1]
           parts == Encode(req)
       IN /\ request' = req
          /\ frames' = parts
          /\ c2s' = IF parts = <<>> THEN c2s
                    ELSE Append(c2s, ClientCodecEncode(parts))
          /\ written' = Len(parts)
          /\ sentby' = sentby \o [j \in 1..Len(parts) |-> Len(results) + 1]
    /\ rbuf' = <<>>
    /\ inbuf' = <<>>
    /\ received' = 0
    /\ pc' = IF pc = "errored" THEN "awaiting-errored" ELSE "awaiting"
    /\ UNCHANGED <<script, replies, result, stage, results, s2c, sbuf, srv, mem>>
    /\ UNCHANGED <<answered, origins, took, endcodes>>
    /\ UNCHANGED <<framervars, addrvars, servevars, syncvars, zonevars, widevars>>

\* the PLC answers the oldest request frame it has received with one
\* response frame, with an end-code of its choice
PlcAnswer ==
    /\ McServerDecoder(sbuf).tag = "Some"
    /\ LET item == McServerDecoder(sbuf)
           frame == SubSeq(sbuf, 1, Len(sbuf) - Len(item.rest))
       IN /\ \E code \in PlcEndCodes :
                /\ s2c' = Append(s2c, PlcResponse(frame, code))
                /\ endcodes' = Append(endcodes, code)
          /\ sbuf' = item.rest
    /\ answered' = answered + 1
    /\ origins' = Append(origins, answered + 1)
    /\ UNCHANGED <<codecvars, script, pc, results, written, received, rbuf,
                   c2s, srv, mem>>
    /\ UNCHANGED <<sentby, inbuf, took>>
    /\ UNCHANGED <<framervars, addrvars, servevars, syncvars, zonevars, widevars>>

\* TcpClient::call from framed.next: the socket is read into the read
\* buffer, one response payload is taken from it and decoded as the only
\* element of the vector handed to the decoder. A decoder error is returned
\* with the bytes left in the read buffer, and the stream then ends once:
\* the next framed.next yields None without reading, which call returns as
\* UnexpectedEof
PlcReceive ==
    /\ pc \in {"awaiting", "awaiting-errored"}
    /\ IF pc = "awaiting-errored"
       THEN /\ replies' = <<>>
            /\ result' = [tag |-> "Err", error |-> "UnexpectedEof"]
            /\ took' = Append(took, 0)
            /\ pc' = "idle"
            /\ UNCHANGED <<s2c, rbuf, received, origins, inbuf>>
       ELSE \E k \in 1..Len(s2c) :
          LET item == McClientDecoder(rbuf \o Flatten(SubSeq(s2c, 1, k)))
              read == inbuf \o SubSeq(origins, 1, k)
          IN /\ item.tag # "None"
             /\ s2c' = SubSeq(s2c, k + 1, Len(s2c))
             /\ origins' = SubSeq(origins, k + 1, Len(origins))
             /\ IF item.tag = "Err"
                THEN /\ replies' = <<>>
                     /\ result' = [tag |-> "Err", error |-> "InvalidData"]
                     /\ rbuf' = rbuf \o Flatten(SubSeq(s2c, 1, k))
                     /\ took' = Append(took, 0)
                     /\ inbuf' = read
                     /\ pc' = "errored"
                     /\ UNCHANGED received
                ELSE /\ replies' = <<item.payload>>
                     /\ result' = Decode(<<item.payload>>, request)
                     /\ rbuf' = item.rest
                     /\ took' = Append(took, Head(read))
                     /\ inbuf' = Tail(read)
                     /\ received' = received + 1
                     /\ pc' = IF result'.tag = "Panic" THEN "closed" ELSE "idle"
    /\ results' = Append(results, result')
    /\ UNCHANGED <<script, request, frames, stage, written, c2s, sbuf, srv, mem>>
    /\ UNCHANGED <<sentby, answered, endcodes>>
    /\ UNCHANGED <<framervars, addrvars, servevars, syncvars, zonevars, widevars>>

PlcNext == PlcSend \/ ServerRead \/ PlcAnswer \/ PlcReceive

PlcSpec == PlcInit /\ [][PlcNext]_vars

\* the PLC and the transport keep running: bytes on the socket are read,
\* a received request frame is answered, and a response that has arrived
\* wakes the waiting call
PlcFairSpec ==
    PlcSpec /\ WF_vars(ServerRead) /\ WF_vars(PlcAnswer) /\ WF_vars(PlcReceive)

\* the request frames of call i, by their position in the order sent
FramesOfCall(i) == {n \in 1..Len(sentby) : sentby[n] = i}

\* call i returned a PLC end-code error
EndCodeError(i) ==
    /\ i <= Len(results)
    /\ results[i].tag = "Err"
    /\ results[i].error = "OutOfRange"

\* C31: after a call that failed with a PLC end-code error, the next call
\* on the same context has sent its request and the response it consumed
\* and returned the result of is a response to that request.
C31_UsableAfterEndCodeError ==
    \A i \in 1..Len(results) :
        (i > 1 /\ EndCodeError(i - 1)) =>
            /\ FramesOfCall(i) # {}
            /\ took[i] \in FramesOfCall(i)

\* after a one-frame call failed with an end-code error, the next call, if
\* it sent a frame, consumed a response to its own request
C31_UsableAfterOneFrameError ==
    \A i \in 1..Len(results) :
        (i > 1 /\ EndCodeError(i - 1) /\ Cardinality(FramesOfCall(i - 1)) = 1
               /\ FramesOfCall(i) # {}
               /\ \A j \in 1..(i - 1) : Cardinality(FramesOfCall(j)) = 1) =>
            took[i] \in FramesOfCall(i)

C31_Witness ==
    /\ Len(results) = 2
    /\ EndCodeError(1)
    /\ Cardinality(FramesOfCall(1)) = 1
    /\ took[2] \in FramesOfCall(2)
    /\ results[2].tag = "Ok"

\* the end-codes that stand for an out-of-range access, 0xC051..=0xC054
OutOfRangeCodes == 49233..49236

\* C7: a response frame whose end-code is in 0xC051..=0xC054, whatever its
\* position among the sub-responses of a call, makes that call return the
\* out-of-range error and no payload.
C7_OutOfRangeInAnyPosition ==
    \A n \in 1..Len(endcodes) :
        (endcodes[n] \in OutOfRangeCodes /\ sentby[n] <= Len(results)) =>
            results[sentby[n]] = [tag |-> "Err", error |-> "OutOfRange"]

\* the same for the response to the first frame of a call, the one response
\* the call hands to the decoder, when no call before it left a response
\* behind
C7_OutOfRangeInFirstPosition ==
    \A n \in 1..Len(endcodes) :
        (/\ endcodes[n] \in OutOfRangeCodes
         /\ sentby[n] <= Len(results)
         /\ n = CHOOSE m \in FramesOfCall(sentby[n]) :
                    \A o \in FramesOfCall(sentby[n]) : m <= o
         /\ \A j \in 1..(sentby[n] - 1) : Cardinality(FramesOfCall(j)) = 1) =>
            results[sentby[n]] = [tag |-> "Err", error |-> "OutOfRange"]

\* C35: the response frame each finished call consumed is one the PLC
\* produced for a request frame of that call, never one left over from an
\* earlier call.
C35_ConsumesOwnResponse ==
    \A i \in 1..Len(took) : took[i] \in FramesOfCall(i)

\* as long as every call so far sent exactly one frame, each finished call
\* consumed the response to its own frame
C35_OwnResponseOneFrameCalls ==
    (\A j \in 1..Len(results) : Cardinality(FramesOfCall(j)) = 1) =>
        \A i \in 1..Len(took) : took[i] \in FramesOfCall(i)

\* C36: every call that has been started eventually returns a response or
\* an error, whatever the request, given a PLC that answers every request
\* frame it receives and a connection that stays open.
C36_EveryCallReturns == (pc = "awaiting") ~> (pc # "awaiting")

\* a call whose request was encoded into at least one frame eventually
\* returns
C36_CallWithFramesReturns ==
    (pc = "awaiting" /\ written > 0) ~> (pc # "awaiting")

\* the request the test of the encoder builds: ReadBools("X0", 10)
ReadBoolsX0 ==
    [kind |-> "ReadBools", address |-> [prefix |-> "X", number |-> 0],
     quantity |-> 10]

\* C32: a ReadBools request for q bits is encoded as word-batch read frames
\* (01 04 00 00) of the request's device code whose point counts add up to
\* ceil(q / 16) words, the first at the request's address and each further
\* one where the previous ended; 10 bits at X0 give one frame with device
\* code 0x9C, head address 0 and count 1.
C32_ReadBoolsAsWordRead ==
    /\ (stage # "start" /\ request.kind = "ReadBools") =>
          /\ SumCounts(frames) = CeilDiv(request.quantity, 16)
          /\ \A k \in 1..Len(frames) :
                /\ FrameFunction(frames[k]) = <<1, 4, 0, 0>>
                /\ FrameCode(frames[k]) = PlcCode(request.address.prefix)
                /\ FrameAddress(frames[k]) =
                      request.address.number + SumCounts(SubSeq(frames, 1, k - 1))
                /\ FrameData(frames[k]) = <<>>
    /\ LET fs == Encode(ReadBoolsX0)
       IN /\ Len(fs) = 1
          /\ FrameFunction(fs[1]) = <<1, 4, 0, 0>>
          /\ FrameCode(fs[1]) = 156
          /\ FrameAddress(fs[1]) = 0
          /\ FrameCount(fs[1]) = 1

C32_Witness ==
    /\ stage = "encoded"
    /\ request.kind = "ReadBools"
    /\ request.address.prefix = "X"
    /\ request.quantity = 16 * LIMIT + 1
    /\ Len(frames) = 2
    /\ FrameCount(frames[1]) = LIMIT
    /\ FrameCount(frames[2]) = 1
    /\ FrameCode(frames[2]) = 156

\* C33: the 2000-word read from D0 is encoded as three frames of
\* 960, 960 and 80 points at head addresses 0, 960 and 1920, and the three
\* successful responses decode to one payload of 4000 bytes.
C33_LongReadFramesOf960 ==
    (stage # "start" /\ request = LongRead) =>
        /\ Len(frames) = 3
        /\ [k \in 1..3 |-> FrameCount(frames[k])] = <<960, 960, 80>>
        /\ [k \in 1..3 |-> FrameAddress(frames[k])] = <<0, 960, 1920>>
        /\ (stage = "decoded" /\ AllSucceeded) =>
              /\ result.tag = "Ok"
              /\ Len(JoinData(replies)) = 4000
              /\ Len(result.values) = 2000

(***************************************************************************)
(* Edge specification: the encoder on requests whose head device lies at   *)
(* the end of the 24-bit range (src/src/codec/mod.rs)                      *)
(***************************************************************************)
\* head device numbers up to and beyond the end of the 24-bit range
EdgeStarts ==
    {U24_MAX - d : d \in {0, 1, LIMIT - 1, LIMIT, LIMIT + 1, 2 * LIMIT,
                          2 * LIMIT + 1, 3 * LIMIT}}
    \cup {U24_MAX + 1, U24_MAX + LIMIT}

EdgeSizes == {0, 1, 2, LIMIT, LIMIT + 1, 2 * LIMIT + 1}

EdgeRequests ==
    {[kind |-> "ReadU16s", address |-> [prefix |-> "D", number |-> a],
      quantity |-> q] : a \in EdgeStarts, q \in EdgeSizes}
    \cup {[kind |-> "WriteU16s", address |-> [prefix |-> "D", number |-> a],
           data |-> [i \in 1..q |-> PatternValue("WriteU16s", 1, i)]] :
             a \in EdgeStarts, q \in EdgeSizes}

EdgeInit ==
    /\ request \in EdgeRequests
    /\ frames = <<>>
    /\ replies = <<>>
    /\ result = [tag |-> "None"]
    /\ stage = "edge"
    /\ script = <<>>
    /\ pc = "idle"
    /\ results = <<>>
    /\ written = 0
    /\ received = 0
    /\ rbuf = <<>>
    /\ c2s = <<>>
    /\ s2c = <<>>
    /\ sbuf = <<>>
    /\ srv = "serving"
    /\ mem = <<>>
    /\ FramerIdle
    /\ AddrIdle
    /\ WideIdle
    /\ ServeIdle
    /\ SyncIdle
    /\ ZoneIdle
    /\ PlcIdle

\* the encoder runs on the request: it returns its frames or panics
EdgeEncode ==
    /\ stage = "edge"
    /\ result' = TryEncode(request)
    /\ frames' = IF TryEncode(request).tag = "Sent" THEN Encode(request) ELSE <<>>
    /\ stage' = "edge-encoded"
    /\ UNCHANGED <<request, replies>>
    /\ UNCHANGED <<netvars, framervars, addrvars, servevars, syncvars,
                   zonevars, plcvars, widevars>>

EdgeNext == EdgeEncode

EdgeSpec == EdgeInit /\ [][EdgeNext]_vars

\* C34: the encoder either emits only frames whose head device number, the
\* advanced numbers of later chunks included, is at most 0xFFFFFF and is
\* the number meant, or returns an error value; it does not abort.
C34_AddressesFit24Bits ==
    stage = "edge-encoded" =>
        /\ result.tag \in {"Sent", "Err"}
        /\ result.tag = "Sent" =>
              \A k \in 1..Len(frames) :
                 /\ FrameAddress(frames[k]) <= U24_MAX
                 /\ FrameAddress(frames[k]) = request.address.number + LIMIT * (k - 1)

\* the frames the encoder does return carry the head device number meant
C34_NoTruncatedAddress ==
    (stage = "edge-encoded" /\ result.tag = "Sent") =>
        \A k \in 1..Len(frames) :
           /\ FrameAddress(frames[k]) <= U24_MAX
           /\ FrameAddress(frames[k]) = request.address.number + LIMIT * (k - 1)

\* every request with a head device number beyond 0xFFFFFF in its first or
\* in a later chunk ends in the abort
C34_AbortsBeyond24Bits ==
    stage = "edge-encoded" =>
        (result.tag = "Panic" <=>
            (QuantityOrLen(request) > 0 /\
             request.address.number
                 + LIMIT * (CeilDiv(QuantityOrLen(request), LIMIT) - 1) > U24_MAX))

(***************************************************************************)
(* Delivery specification: the client framer hands the payload of one      *)
(* response frame of any length to the decoder (src/src/codec/tcp.rs,      *)
(* src/src/codec/mod.rs)                                                   *)
(***************************************************************************)
\* the bytes a response payload is made of: zeros, ones, the halves of the
\* end-code 0xC051
PayloadBytes == {0, 1, 81, 192}

\* the longest payload of a response frame
MaxPayload == 3

RECURSIVE PayloadsOf(_)
\* every payload of exactly n bytes
PayloadsOf(n) ==
    IF n = 0 THEN {<<>>}
    ELSE {Append(p, b) : p \in PayloadsOf(n - 1), b \in PayloadBytes}

\* a response frame as the peer writes it: prefix, data length, payload
ResponseFrame(payload) ==
    response_prefix \o <<Len(payload) % 256, Len(payload) \div 256>> \o payload

\* the requests whose response is awaited: bit and word reads, a write
AwaitedRequests ==
    {[kind |-> k, address |-> [prefix |-> "D", number |-> 0], quantity |-> q] :
        k \in {"ReadBools", "ReadU16s", "ReadU32s"}, q \in {0, 1, 8, 9}}
    \cup {[kind |-> "WriteU16s", address |-> [prefix |-> "D", number |-> 0],
           data |-> <<7>>]}

DeliveryInit ==
    /\ request \in AwaitedRequests
    /\ \E n \in 0..MaxPayload : \E p \in PayloadsOf(n) : rbuf = ResponseFrame(p)
    /\ frames = <<>>
    /\ replies = <<>>
    /\ result = [tag |-> "None"]
    /\ stage = "delivery"
    /\ script = <<>>
    /\ pc = "awaiting"
    /\ results = <<>>
    /\ written = 0
    /\ received = 0
    /\ c2s = <<>>
    /\ s2c = <<>>
    /\ sbuf = <<>>
    /\ srv = "serving"
    /\ mem = <<>>
    /\ FramerIdle
    /\ AddrIdle
    /\ WideIdle
    /\ ServeIdle
    /\ SyncIdle
    /\ ZoneIdle
    /\ PlcIdle

\* framed.next: McClientDecoder::decode splits one whole frame off the read
\* buffer and hands on its payload
FramerDeliver ==
    /\ stage = "delivery"
    /\ McClientDecoder(rbuf).tag = "Some"
    /\ replies' = <<McClientDecoder(rbuf).payload>>
    /\ rbuf' = McClientDecoder(rbuf).rest
    /\ received' = received + 1
    /\ stage' = "replied"
    /\ UNCHANGED <<request, frames, result>>
    /\ UNCHANGED <<script, pc, results, written, c2s, s2c, sbuf, srv, mem>>
    /\ UNCHANGED <<framervars, addrvars, servevars, syncvars, zonevars, plcvars, widevars>>

DeliveryNext == FramerDeliver \/ DoDecode

DeliverySpec == DeliveryInit /\ [][DeliveryNext]_vars

\* C37: whatever payload the client framer delivers, decoding returns a
\* response or an error value; it does not abort.
C37_DecodingNeverAborts ==
    stage = "decoded" => result.tag \in {"Ok", "Err"}

\* a word read or a write whose payload has its two end-code bytes is
\* decoded to a response or an error value, however short the data
C37_WordReadsReturn ==
    (stage = "decoded" /\ request.kind # "ReadBools" /\ Len(replies[1]) >= 2) =>
        result.tag \in {"Ok", "Err"}

\* the aborts: a payload without its two end-code bytes, and a bit read
\* answered with fewer than ceil(quantity / 8) data bytes
C37_Aborts ==
    stage = "decoded" =>
        (result.tag = "Panic" <=>
            \/ Len(replies[1]) < 2
            \/ /\ request.kind = "ReadBools"
               /\ check_response(replies[1]) = "Ok"
               /\ request.quantity > 8 * (Len(replies[1]) - 2))

(***************************************************************************)
(* Wide-read specification: the point count of reads of 32-bit and 64-bit  *)
(* values for quantities over the whole u32 range (src/src/codec/mod.rs)   *)
(***************************************************************************)
\* the product of a u32 and a small factor as a number: 32 bits and a carry
ExactTimes(x, k) ==
    [carry |-> (x.hi * k + (x.lo * k) \div 65536) \div 65536,
     value |-> U32((x.hi * k + (x.lo * k) \div 65536) % 65536, (x.lo * k) % 65536)]

\* quantity * k in u32 arithmetic: with overflow checks (debug build) an
\* overflow panics, without them (release build) the product wraps
u32_mul(x, k, checks) ==
    LET lo == x.lo * k
        hi == x.hi * k + lo \div 65536
    IN IF hi >= 65536 /\ checks THEN [tag |-> "Panic", value |-> U32(0, 0)]
       ELSE [tag |-> "Ok", value |-> U32(hi % 65536, lo % 65536)]

\* the match arms of try_from for reads of 32-bit and 64-bit values:
\* quantity * 2 and quantity * 4
WidePoints(req, checks) ==
    IF req.kind \in {"ReadU32s", "ReadI32s", "ReadF32s"}
    THEN u32_mul(req.quantity, 2, checks)
    ELSE u32_mul(req.quantity, 4, checks)

\* the assertion of request_command holds in every pass of the loop over
\* total points: the head device of the last frame, the largest, fits 24
\* bits (a total of 2^25 points or more puts it beyond them)
WideAddressesFit(req, total) ==
    LET start == parse_address_and_get_instruction_code(req.address)[1]
    IN IF total.hi = 0 /\ total.lo = 0 THEN TRUE
       ELSE IF total.hi >= 512 THEN FALSE
       ELSE AddressAssert(start + LIMIT * (CeilDiv(total.hi * 65536 + total.lo,
                                                   LIMIT) - 1))

\* the frames of the loop over total points, total below 2^25
WideFrames(req, total) ==
    LET parsed == parse_address_and_get_instruction_code(req.address)
        T == total.hi * 65536 + total.lo
        n == CeilDiv(T, LIMIT)
    IN [k \in 1..n |->
          EncodeFrame(req, parsed[1] + LIMIT * (k - 1), parsed[2],
                      IF k < n THEN LIMIT ELSE T - LIMIT * (n - 1))]

\* try_from on a read of 32-bit or 64-bit values: the multiplication may
\* panic, then the loop runs until request_command's assertion fails or
\* all points are framed
WideTryFrom(req, checks) ==
    LET product == WidePoints(req, checks)
    IN IF product.tag = "Panic"
       THEN [tag |-> "Panic", at |-> "multiply", value |-> product.value,
             frames |-> <<>>]
       ELSE IF ~WideAddressesFit(req, product.value)
       THEN [tag |-> "Panic", at |-> "request_command", value |-> product.value,
             frames |-> <<>>]
       ELSE [tag |-> "Ok", at |-> "Ok", value |-> product.value,
             frames |-> WideFrames(req, product.value)]

WideKinds == {"ReadU32s", "ReadI32s", "ReadF32s", "ReadF64s", "ReadU64s", "ReadI64s"}

\* quantities of the Quantity type: small ones, and those around a quarter,
\* a half and the whole of the u32 range
WideQuantities ==
    {U32(0, n) : n \in {0, 1, 2, 225, 450, 451}}
    \cup {U32(16383, 65535), U32(16384, 0), U32(32767, 65535), U32(32768, 0),
          U32(49152, 1), U32(65535, 65535)}

WideInit ==
    /\ wide \in {[kind |-> k, address |-> [prefix |-> "D", number |-> 0],
                  quantity |-> q] : k \in WideKinds, q \in WideQuantities}
    /\ profile \in {"debug", "release"}
    /\ points = <<>>
    /\ request = [kind |-> "None"]
    /\ frames = <<>>
    /\ replies = <<>>
    /\ result = [tag |-> "None"]
    /\ stage = "wide"
    /\ script = <<>>
    /\ pc = "idle"
    /\ results = <<>>
    /\ written = 0
    /\ received = 0
    /\ rbuf = <<>>
    /\ c2s = <<>>
    /\ s2c = <<>>
    /\ sbuf = <<>>
    /\ srv = "serving"
    /\ mem = <<>>
    /\ FramerIdle
    /\ AddrIdle
    /\ ServeIdle
    /\ SyncIdle
    /\ ZoneIdle
    /\ PlcIdle

\* the encoder runs on the request: it returns its frames or panics
WideEncode ==
    /\ stage = "wide"
    /\ points' = [tag |-> WideTryFrom(wide, profile = "debug").tag,
                  at |-> WideTryFrom(wide, profile = "debug").at,
                  value |-> WideTryFrom(wide, profile = "debug").value]
    /\ frames' = WideTryFrom(wide, profile = "debug").frames
    /\ stage' = "wide-encoded"
    /\ UNCHANGED <<wide, profile, request, replies, result>>
    /\ UNCHANGED <<netvars, framervars, addrvars, servevars, syncvars,
                   zonevars, plcvars>>

WideNext == WideEncode

WideSpec == WideInit /\ [][WideNext]_vars

\* 2q or 4q as a number of 32 bits and a carry
ExactPoints(req) == ExactTimes(req.quantity, WordsOfType(req.kind))

\* C38: for every read of 32-bit or 64-bit values and every quantity q of
\* the Quantity type, the encoder does not abort, the product does not
\* wrap around at 32 bits, and the point counts of the emitted frames add
\* up to exactly 2q or 4q.
C38_PointsAreTwiceOrFourTimes ==
    stage = "wide-encoded" =>
        /\ points.tag = "Ok"
        /\ ExactPoints(wide).carry = 0
        /\ points.value = ExactPoints(wide).value
        /\ SumCounts(frames) = points.value.hi * 65536 + points.value.lo

\* as long as 2q or 4q fits 32 bits and no frame starts beyond 0xFFFFFF,
\* the frames add up to exactly 2q or 4q, in either build; a product that
\* fits but takes the head device beyond 0xFFFFFF ends in the abort of
\* request_command
C38_PointsWhenProductFits ==
    (stage = "wide-encoded" /\ ExactPoints(wide).carry = 0) =>
        IF WideAddressesFit(wide, ExactPoints(wide).value)
        THEN /\ points.tag = "Ok"
             /\ points.value = ExactPoints(wide).value
             /\ SumCounts(frames) = points.value.hi * 65536 + points.value.lo
        ELSE /\ points.tag = "Panic"
             /\ points.at = "request_command"

(***************************************************************************)
(* Ownership specification: Request::into_owned on every request variant   *)
(* (src/src/frame/mod.rs)                                                  *)
(***************************************************************************)
\* Request::function_code: the FunctionCode variant of the request's name
function_code(req) == req.kind

\* Request::into_owned: every arm rebuilds its own variant from the owned
\* address and the quantity or the owned payload, except the ReadI64s arm,
\* which builds ReadU64s
into_owned(req) ==
    IF req.kind = "ReadI64s"
    THEN [kind |-> "ReadU64s", address |-> req.address, quantity |-> req.quantity]
    ELSE req

OwnedInit ==
    /\ request \in Requests
    /\ frames = <<>>
    /\ replies = <<>>
    /\ result = [tag |-> "None"]
    /\ stage = "borrowed"
    /\ script = <<>>
    /\ pc = "idle"
    /\ results = <<>>
    /\ written = 0
    /\ received = 0
    /\ rbuf = <<>>
    /\ c2s = <<>>
    /\ s2c = <<>>
    /\ sbuf = <<>>
    /\ srv = "serving"
    /\ mem = <<>>
    /\ FramerIdle
    /\ AddrIdle
    /\ ServeIdle
    /\ SyncIdle
    /\ ZoneIdle
    /\ PlcIdle
    /\ WideIdle

\* request.into_owned()
IntoOwned ==
    /\ stage = "borrowed"
    /\ result' = [tag |-> "Owned", request |-> into_owned(request)]
    /\ stage' = "owned"
    /\ UNCHANGED <<request, frames, replies>>
    /\ UNCHANGED <<netvars, framervars, addrvars, servevars, syncvars,
                   zonevars, plcvars, widevars>>

OwnedNext == IntoOwned

OwnedSpec == OwnedInit /\ [][OwnedNext]_vars

\* C39: the request into_owned returns has the variant of the original,
\* hence its function code, and the same address and the same quantity or
\* payload.
C39_IntoOwnedKeepsRequest ==
    stage = "owned" =>
        /\ result.request.kind = request.kind
        /\ function_code(result.request) = function_code(request)
        /\ result.request.address = request.address
        /\ result.request = request

\* into_owned keeps the address and the quantity or payload of every
\* request, and the variant of every request but ReadI64s, which comes
\* back as ReadU64s
C39_IntoOwnedButReadI64s ==
    stage = "owned" =>
        /\ result.request.address = request.address
        /\ request.kind # "ReadI64s" => result.request = request
        /\ request.kind = "ReadI64s" =>
              /\ result.request.kind = "ReadU64s"
              /\ result.request.quantity = request.quantity

====
